---- MODULE Spec2Model ----
(***************************************************************************)
(* Model of the constrained-generation pipeline of the NCP generator       *)
(* backend: candidate retrieval, the diagnosis selection retry loop, the   *)
(* structured plan generation retry loop and the request tracker.          *)
(*                                                                         *)
(* Conventions.  A Python str is a sequence of one-character strings (for  *)
(* labels, so that strip() and lower() are computed) or a sequence of      *)
(* words (for free text).  A Python value that may be None, absent or of   *)
(* another type is a tagged record: [t |-> "str", s |-> ...],              *)
(* [t |-> "none"], [t |-> "missing"], [t |-> "list", v |-> ...],           *)
(* [t |-> "dict", d |-> ...], [t |-> "num"].                               *)
(***************************************************************************)
EXTENDS Integers, Sequences, FiniteSets, TLC

----------------------------------------------------------------------------
(* Bounds of the model *)

\* longest candidate list returned by the similarity search
MaxCands == 2

\* most tokens between the braces of a JSON object text
MaxInner == 4

\* most calls of the API in a run of the four endpoints
MaxCalls == 2

----------------------------------------------------------------------------
(* Python values *)

NoneV == [t |-> "none"]
Missing == [t |-> "missing"]
Str(s) == [t |-> "str", s |-> s]

\* str.lower() on one character
LowerChar(c) ==
    CASE c = "A" -> "a"
      [] c = "B" -> "b"
      [] c = "P" -> "p"
      [] OTHER -> c

\* str.lower()
Lower(s) == [i \in DOMAIN s |-> LowerChar(s[i])]

IsSpace(c) == c = " "

RECURSIVE LStrip(_)
LStrip(s) == IF s # <<>> /\ IsSpace(Head(s)) THEN LStrip(Tail(s)) ELSE s

RECURSIVE RStrip(_)
RStrip(s) ==
    IF s # <<>> /\ IsSpace(s[Len(s)]) THEN RStrip(SubSeq(s, 1, Len(s) - 1)) ELSE s

\* str.strip()
Strip(s) == RStrip(LStrip(s))

\* "word in text" for a text kept as a sequence of words
ContainsWord(text, w) == \E i \in DOMAIN text : text[i] = w

----------------------------------------------------------------------------
(* Candidate retrieval: rows of the similarity search and their mapping *)

\* rows the match_diagnoses RPC can return (array columns may be NULL)
RowPool ==
    { [id |-> 1, diagnosis |-> <<"A", "p">>, definition |-> Str(<<"d1">>),
       defining_characteristics |-> [t |-> "list", v |-> <<"dc1">>],
       related_factors |-> NoneV,
       risk_factors |-> [t |-> "list", v |-> <<>>],
       suggested_outcomes |-> [t |-> "list", v |-> <<"o1">>],
       suggested_interventions |-> [t |-> "list", v |-> <<"i1">>]],
      [id |-> 2, diagnosis |-> <<" ", "a", "P">>, definition |-> NoneV,
       defining_characteristics |-> NoneV,
       related_factors |-> [t |-> "list", v |-> <<"rf2">>],
       risk_factors |-> NoneV,
       suggested_outcomes |-> NoneV,
       suggested_interventions |-> NoneV],
      [id |-> 3, diagnosis |-> <<"B", " ">>, definition |-> Str(<<"d3">>),
       defining_characteristics |-> [t |-> "list", v |-> <<"dc3">>],
       related_factors |-> [t |-> "list", v |-> <<>>],
       risk_factors |-> [t |-> "list", v |-> <<"rk3">>],
       suggested_outcomes |-> NoneV,
       suggested_interventions |-> [t |-> "list", v |-> <<"i3">>]] }

\* row[col] or []
OrEmpty(col) == IF col.t = "list" THEN col.v ELSE <<>>

\* the candidate built from one row; the similarity is left out
RowToCandidate(row) ==
    [id |-> row.id,
     diagnosis |-> Str(row.diagnosis),
     definition |-> row.definition,
     defining_characteristics |-> OrEmpty(row.defining_characteristics),
     related_factors |-> OrEmpty(row.related_factors),
     risk_factors |-> OrEmpty(row.risk_factors),
     suggested_outcomes |-> OrEmpty(row.suggested_outcomes),
     suggested_interventions |-> OrEmpty(row.suggested_interventions)]

\* result.data of the RPC: lists of distinct rows, ordered by the service
RowLists ==
    { rows \in UNION { [1..n -> RowPool] : n \in 0..MaxCands } :
        \A i, j \in DOMAIN rows : i # j => rows[i].id # rows[j].id }

\* find_candidate_diagnoses on a successful search
MapRows(rows) == [i \in DOMAIN rows |-> RowToCandidate(rows[i])]

----------------------------------------------------------------------------
(* Diagnosis selection: validation, matching, sentinel and fallback *)

\* one attempt too many
max_retries_four == 3 + 1

\* attempts of the selection loop
max_retries == 3

\* dict.get(key, default) for a key that may be absent
Get(field, default) == IF field.t = "missing" THEN default ELSE field

\* ai_response.get('diagnosis', '').strip() raises AttributeError unless str
StripRaises(ai_response) == Get(ai_response.diagnosis, Str(<<>>)).t # "str"

validate_ai_selection(ai_response, candidates) ==
    LET selected_diagnosis == Strip(Get(ai_response.diagnosis, Str(<<>>)).s)
    IN  IF selected_diagnosis = <<>>
        THEN FALSE
        ELSE \E i \in DOMAIN candidates :
                Lower(Strip(candidates[i].diagnosis.s)) = Lower(selected_diagnosis)

\* the candidate's data with the AI reasoning, the label taken from the AI
MergeReasoningLabelFromAI(candidate, ai_response) ==
    [reasoning |-> Get(ai_response.reasoning, Str(<<"No", "reasoning", "provided">>)),
     diagnosis |-> Get(ai_response.diagnosis, Str(<<>>))]
        @@ candidate

\* the candidate's data with the default reasoning, the AI's one dropped
MergeReasoningDefaultOnly(candidate, ai_response) ==
    [reasoning |-> Str(<<"No", "reasoning", "provided">>)] @@ candidate

\* the candidate's data with the AI reasoning
MergeReasoning(candidate, ai_response) ==
    [reasoning |-> Get(ai_response.reasoning, Str(<<"No", "reasoning", "provided">>))]
        @@ candidate

\* index of the first candidate whose label matches, 0 when there is none
MatchIndex(ai_response, candidates) ==
    LET selected_diagnosis == Lower(Strip(Get(ai_response.diagnosis, Str(<<>>)).s))
        hits == { i \in DOMAIN candidates :
                    Lower(Strip(candidates[i].diagnosis.s)) = selected_diagnosis }
    IN  IF hits = {} THEN 0 ELSE CHOOSE i \in hits : \A j \in hits : i <= j

find_matching_candidate(ai_response, candidates) ==
    LET i == MatchIndex(ai_response, candidates)
    IN  IF i = 0 THEN NoneV ELSE MergeReasoning(candidates[i], ai_response)

\* a "no diagnosis" result with an empty label instead of None
NoDiagnosisResultBlankLabel ==
    [diagnosis |-> Str(<<>>),
     definition |-> NoneV,
     defining_characteristics |-> <<>>,
     related_factors |-> <<>>,
     risk_factors |-> <<>>,
     suggested_outcomes |-> <<>>,
     suggested_interventions |-> <<>>,
     reasoning |-> Str(<<"No", "suitable", "diagnoses", "found", "for", "the",
                         "provided", "assessment", "data.">>)]

\* the "no diagnosis" result for an empty candidate list
NoDiagnosisResult ==
    [diagnosis |-> NoneV,
     definition |-> NoneV,
     defining_characteristics |-> <<>>,
     related_factors |-> <<>>,
     risk_factors |-> <<>>,
     suggested_outcomes |-> <<>>,
     suggested_interventions |-> <<>>,
     reasoning |-> Str(<<"No", "suitable", "diagnoses", "found", "for", "the",
                         "provided", "assessment", "data.">>)]

FallbackReasoning ==
    Str(<<"AI", "selection", "failed", "after", "multiple", "attempts.",
          "Returned", "first", "candidate", "as", "fallback", "based", "on",
          "highest", "similarity", "score.">>)

\* the last candidate instead of the first
FallbackResultLast(candidates) ==
    [reasoning |-> FallbackReasoning] @@ candidates[Len(candidates)]

\* candidates[0].copy() with the fixed reasoning
FallbackResult(candidates) == [reasoning |-> FallbackReasoning] @@ candidates[1]

----------------------------------------------------------------------------
(* The selection prompt *)

\* the fields of a candidate shown to the AI (no id, no similarity)
CandidateText(candidate) ==
    [diagnosis |-> candidate.diagnosis,
     definition |-> candidate.definition,
     defining_characteristics |-> candidate.defining_characteristics,
     related_factors |-> candidate.related_factors,
     risk_factors |-> candidate.risk_factors,
     suggested_outcomes |-> candidate.suggested_outcomes,
     suggested_interventions |-> candidate.suggested_interventions]

\* the prompt: the rules heading with the correction blocks spliced after
\* it (newest first), the assessment and the candidate list
InitialPrompt(assessment_data, candidates) ==
    [corrections |-> <<>>,
     assessment |-> assessment_data,
     candidates_text |-> [i \in DOMAIN candidates |-> CandidateText(candidates[i])]]

\* [c['diagnosis'] for c in candidates]
CandidateNames(candidates) == [i \in DOMAIN candidates |-> candidates[i].diagnosis.s]

\* ai_response.get('diagnosis', 'None') as printed in the correction block
SelectedText(ai_response) == Get(ai_response.diagnosis, Str(<<"N", "o", "n", "e">>))

\* a correction block that lists the normalised labels, not the exact ones
AddCorrectionNormalised(prompt, ai_response, candidates) ==
    [prompt EXCEPT !.corrections =
        <<[selected |-> SelectedText(ai_response),
           names |-> [i \in DOMAIN candidates |->
                        Lower(Strip(candidates[i].diagnosis.s))]]>> \o @]

\* ai_prompt.replace("# CRITICAL RULES", "# CRITICAL RULES - PREVIOUS ATTEMPT FAILED ...")
AddCorrection(prompt, ai_response, candidates) ==
    [prompt EXCEPT !.corrections =
        <<[selected |-> SelectedText(ai_response),
           names |-> CandidateNames(candidates)]>> \o @]

\* responses of the selection oracle
SelResponses ==
    { [kind |-> k] : k \in {"raise", "empty", "nojson", "badjson"} }
    \cup { [kind |-> "obj", diagnosis |-> Str(<<"a", "p", " ">>), reasoning |-> Str(<<"because">>)],
           [kind |-> "obj", diagnosis |-> Str(<<"a", "p", " ">>), reasoning |-> Missing],
           [kind |-> "obj", diagnosis |-> Str(<<"b">>), reasoning |-> Str(<<"because">>)],
           [kind |-> "obj", diagnosis |-> Str(<<"z">>), reasoning |-> Str(<<"because">>)],
           [kind |-> "obj", diagnosis |-> Str(<<" ">>), reasoning |-> Missing],
           [kind |-> "obj", diagnosis |-> Missing, reasoning |-> Str(<<"because">>)],
           [kind |-> "obj", diagnosis |-> NoneV, reasoning |-> Missing] }

\* how one iteration of the selection loop ends for a response
SelVerdict(resp, candidates) ==
    CASE resp.kind = "raise" -> "exception"
      [] resp.kind = "empty" -> "no_response"
      [] resp.kind = "nojson" -> "no_json"
      [] resp.kind = "badjson" -> "decode_error"
      [] OTHER ->
           IF StripRaises(resp) THEN "exception"
           ELSE IF validate_ai_selection(resp, candidates)
                THEN (IF find_matching_candidate(resp, candidates) # NoneV
                      THEN "valid" ELSE "no_match")
                ELSE "invalid"

----------------------------------------------------------------------------
(* Structured plan: JSON values and validate_ncp_structure *)

D(f) == [t |-> "dict", d |-> f]
L(v) == [t |-> "list", v |-> v]
Num(n) == [t |-> "num", n |-> n]

\* truth value of a Python object
Truthy(x) ==
    CASE x.t = "none" -> FALSE
      [] x.t = "str" -> x.s # <<>>
      [] x.t = "list" -> x.v # <<>>
      [] x.t = "dict" -> DOMAIN x.d # {}
      [] x.t = "num" -> x.n # 0
      [] OTHER -> FALSE

\* len(x) raises TypeError for an object without a length
LenRaises(x) == x.t \notin {"str", "list", "dict"}

\* dict.get(key) of a JSON object
DictGet(x, key) == IF key \in DOMAIN x.d THEN x.d[key] ELSE NoneV

required_sections ==
    {"assessment", "diagnosis", "outcomes", "interventions", "rationale",
     "implementation", "evaluation"}

\* a section with meaningful content
SectionHasContent(content) ==
    /\ Truthy(content)
    /\ ~(content.t = "str" /\ Len(Strip(content.s)) < 10)
    /\ ~(content.t = "dict" /\ ~\E k \in DOMAIN content.d : Truthy(content.d[k]))

\* the key is present, whatever its value
HasEntriesKeyPresent(x, key) == key \in DOMAIN x.d

\* x.get(key) and len(x[key]) > 0
HasEntries(x, key) == Truthy(DictGet(x, key))

\* the checks up to and including the per-section content check
SectionsOk(ncp_data) ==
    /\ required_sections \subseteq DOMAIN ncp_data.d
    /\ \A section \in required_sections : SectionHasContent(ncp_data.d[section])

\* validate_ncp_structure raises TypeError inside a len() call
ValidateRaises(ncp_data) ==
    /\ SectionsOk(ncp_data)
    /\ LET outcomes == ncp_data.d["outcomes"]
           interventions == ncp_data.d["interventions"]
           Bad(x, key) == Truthy(DictGet(x, key)) /\ LenRaises(DictGet(x, key))
       IN  /\ outcomes.t = "dict"
           /\ \/ Bad(outcomes, "short_term")
              \/ Bad(outcomes, "long_term")
              \/ /\ HasEntries(outcomes, "short_term") \/ HasEntries(outcomes, "long_term")
                 /\ interventions.t = "dict"
                 /\ \/ Bad(interventions, "independent")
                    \/ Bad(interventions, "dependent")
                    \/ Bad(interventions, "collaborative")

\* the value returned when no TypeError is raised
validate_ncp_structure(ncp_data) ==
    /\ SectionsOk(ncp_data)
    /\ LET outcomes == ncp_data.d["outcomes"]
           interventions == ncp_data.d["interventions"]
           rationale == ncp_data.d["rationale"]
       IN  /\ outcomes.t = "dict"
           /\ HasEntries(outcomes, "short_term") \/ HasEntries(outcomes, "long_term")
           /\ interventions.t = "dict"
           /\ \/ HasEntries(interventions, "independent")
              \/ HasEntries(interventions, "dependent")
              \/ HasEntries(interventions, "collaborative")
           /\ rationale.t = "dict"
           /\ Truthy(DictGet(rationale, "interventions"))

\* a text of ten characters
Text10 == Str(<<"t", "e", "x", "t", "o", "f", "t", "e", "n", "c">>)

\* a complete plan
FullPlan ==
    D([assessment |-> D([subjective |-> L(<<Text10>>), objective |-> L(<<>>)]),
       diagnosis |-> D([statement |-> Text10]),
       outcomes |-> D([short_term |-> D([timeframes |-> D([h2 |-> L(<<Text10>>)])]),
                       long_term |-> D([timeframes |-> D(<<>>)])]),
       interventions |-> D([independent |-> L(<<D([id |-> Str(<<"i1">>),
                                                  intervention |-> Text10])>>),
                            dependent |-> L(<<>>),
                            collaborative |-> L(<<>>)]),
       rationale |-> D([interventions |->
                          D([i1 |-> D([rationale |-> Text10, evidence |-> Text10])])]),
       implementation |-> D([independent |-> L(<<D([id |-> Str(<<"i1">>),
                                                   action_taken |-> Text10])>>)]),
       evaluation |-> D([short_term |-> D([status |-> D([Met |-> L(<<Text10>>)])])])])

\* the plan with one section removed
Without(plan, key) == D([k \in DOMAIN plan.d \ {key} |-> plan.d[k]])

\* the plan with one section replaced
With(plan, key, value) ==
    D([k \in DOMAIN plan.d \cup {key} |-> IF k = key THEN value ELSE plan.d[k]])

\* the plans the generation oracle can return in the model
PlanPool ==
    { FullPlan,
      Without(FullPlan, "evaluation"),
      With(FullPlan, "diagnosis", Str(<<"s", "h", "o", "r", "t">>)),
      With(FullPlan, "outcomes", D([short_term |-> D(<<>>), long_term |-> NoneV])),
      With(FullPlan, "outcomes", D([short_term |-> Num(5)])),
      With(FullPlan, "interventions", D([independent |-> L(<<>>), note |-> Text10])),
      With(FullPlan, "rationale", D([summary |-> Text10])) }

----------------------------------------------------------------------------
(* Request tracker (one global instance) *)

\* response.usage of an oracle response
UsagePool == { [input_tokens |-> 1, output_tokens |-> 2] }

\* _extract_usage_metadata: the usage dict, empty without a usage attribute
extract_usage_metadata(response) ==
    IF "usage" \in DOMAIN response
    THEN D([input_tokens |-> response.usage.input_tokens,
            output_tokens |-> response.usage.output_tokens,
            total_tokens |-> response.usage.input_tokens + response.usage.output_tokens])
    ELSE D(<<>>)

\* self.current_request after start_ncp_request
NewRequest(request_id, request_type) ==
    [t |-> "request",
     request_id |-> request_id,
     request_type |-> request_type,
     status |-> "in_progress",
     api_calls |-> <<>>,
     total_tokens |-> [input_tokens |-> 0, output_tokens |-> 0, total_billable |-> 0],
     steps_completed |-> <<>>,
     errors |-> <<>>,
     result_summary |-> NoneV]

\* the tokens are added but the call is not listed
track_api_call_unlisted(cur, response, step, context) ==
    IF cur = NoneV THEN cur
    ELSE LET usage_data == extract_usage_metadata(response)
             input_tokens == IF Truthy(usage_data) THEN usage_data.d.input_tokens ELSE 0
             output_tokens == IF Truthy(usage_data) THEN usage_data.d.output_tokens ELSE 0
         IN  [cur EXCEPT
                !.total_tokens =
                    [input_tokens |-> @.input_tokens + input_tokens,
                     output_tokens |-> @.output_tokens + output_tokens,
                     total_billable |-> @.total_billable + (input_tokens + output_tokens)]]

\* the step is appended to steps_completed on every call
track_api_call_repeat_step(cur, response, step, context) ==
    IF cur = NoneV THEN cur
    ELSE LET usage_data == extract_usage_metadata(response)
             input_tokens == IF Truthy(usage_data) THEN usage_data.d.input_tokens ELSE 0
             output_tokens == IF Truthy(usage_data) THEN usage_data.d.output_tokens ELSE 0
         IN  [cur EXCEPT
                !.total_tokens =
                    [input_tokens |-> @.input_tokens + input_tokens,
                     output_tokens |-> @.output_tokens + output_tokens,
                     total_billable |-> @.total_billable + (input_tokens + output_tokens)],
                !.api_calls =
                    Append(@, [step |-> step, usage |-> usage_data,
                               context |-> context, success |-> TRUE]),
                !.steps_completed = Append(@, step)]

\* self.current_request after track_api_call
track_api_call(cur, response, step, context) ==
    IF cur = NoneV THEN cur
    ELSE LET usage_data == extract_usage_metadata(response)
             input_tokens == IF Truthy(usage_data) THEN usage_data.d.input_tokens ELSE 0
             output_tokens == IF Truthy(usage_data) THEN usage_data.d.output_tokens ELSE 0
         IN  [cur EXCEPT
                !.total_tokens =
                    [input_tokens |-> @.input_tokens + input_tokens,
                     output_tokens |-> @.output_tokens + output_tokens,
                     total_billable |-> @.total_billable + (input_tokens + output_tokens)],
                !.api_calls =
                    Append(@, [step |-> step, usage |-> usage_data,
                               context |-> context, success |-> TRUE]),
                !.steps_completed =
                    IF \E i \in DOMAIN @ : @[i] = step THEN @ ELSE Append(@, step)]

\* an error without an active request starts a record of its own
track_error_starts(cur, step, error_message) ==
    LET rec == IF cur = NoneV THEN NewRequest(0, "unknown") ELSE cur
    IN  [rec EXCEPT !.errors = Append(@, [step |-> step, error_message |-> error_message])]

\* self.current_request after track_error
track_error(cur, step, error_message) ==
    IF cur = NoneV THEN cur
    ELSE [cur EXCEPT !.errors = Append(@, [step |-> step, error_message |-> error_message])]

\* _create_result_summary
create_result_summary(final_result) ==
    IF DOMAIN final_result = {}
    THEN [status |-> "no_result"]
    ELSE [has_diagnosis |-> "diagnosis" \in DOMAIN final_result,
          has_ncp |-> "ncp" \in DOMAIN final_result,
          diagnosis_name |->
              IF "diagnosis" \in DOMAIN final_result /\ Truthy(final_result.diagnosis)
              THEN final_result.diagnosis ELSE NoneV,
          diagnosis_reasoning |->
              IF "reasoning" \in DOMAIN final_result /\ Truthy(final_result.reasoning)
              THEN final_result.reasoning ELSE NoneV,
          ncp_sections |->
              IF "ncp" \in DOMAIN final_result /\ Truthy(final_result.ncp)
              THEN DOMAIN final_result.ncp.d ELSE {}]

\* the record written by complete_ncp_request
CompletedRecord(cur, final_result, status) ==
    [cur EXCEPT !.status = status,
                !.result_summary = create_result_summary(final_result)]

\* the files after complete_ncp_request (_save_request_data)
save_request_data(saved, cur, final_result, status) ==
    IF cur = NoneV THEN saved ELSE Append(saved, CompletedRecord(cur, final_result, status))

\* the completed request stays the current one
complete_ncp_request_keeps(cur) == cur

\* self.current_request after complete_ncp_request
complete_ncp_request(cur) == NoneV

----------------------------------------------------------------------------
(* State *)

VARIABLES
    pc,                  \* position: idle, embed, search, select, selected, generate, done
    parsed,              \* parse_manual_assessment has run
    parse_outcome,       \* HTTP outcome of parse_manual_assessment
    embedding_keywords,  \* assessment_data.get('embedding_keywords')
    original_assessment, \* assessment_data.get('original_assessment')
    candidates,          \* result of find_candidate_diagnoses
    attempt,             \* loop variable of the selection loop
    ai_prompt,           \* selection prompt, rewritten on an invalid pick
    sel_sent,            \* prompt of the last generate_content call
    selResp,             \* response of the last generate_content call
    selCalls,            \* calls of the selection oracle
    selStatus,           \* none, SENTINEL, ACCEPTED or EXHAUSTED
    selected_diagnosis,  \* result of select_best_diagnosis
    genAttempt,          \* loop variable of the generation loop
    ncp_prompt,          \* generation prompt
    gen_sent,            \* prompt of the last messages.create call
    genResp,             \* response of the last messages.create call
    genCalls,            \* calls of the generation oracle
    ncp_data,            \* plan returned by generate_structured_ncp
    embedCalls,          \* calls of the embedding oracle
    embedResult,         \* how embed_assessment_data ended: none, ok, format_error, raise
    searchCalls,         \* calls of the similarity search
    searchResult,        \* how the similarity search ended: none, ok, raise
    outcome,             \* HTTP outcome of suggest_diagnoses
    current_request,     \* ncp_tracker.current_request
    files,               \* request records written to ncp_requests/
    next_id              \* stands for uuid4(): a fresh id per started request

VARIABLES
    v_plan,              \* ncp_data passed to validate_ncp_structure
    v_result,            \* none, True, False or TypeError
    x_json,              \* text of a JSON object, one token per element
    x_style,             \* how the oracle wraps the text: tag, whitespace, BOM
    x_plain,             \* result of the extraction from the unwrapped text
    x_fenced,            \* result of the extraction from the fenced text
    clients,             \* the callers of the API: where each stands, what it got
    http                 \* the endpoint and the response of every call answered

\* the variables of the request pipeline and of the tracker
pipelineVars ==
    <<pc, parsed, parse_outcome, embedding_keywords, original_assessment, candidates,
      attempt, ai_prompt, sel_sent, selResp, selCalls, selStatus, selected_diagnosis,
      genAttempt, ncp_prompt, gen_sent, genResp, genCalls, ncp_data, embedCalls,
      embedResult, searchCalls, searchResult, outcome, current_request, files, next_id>>

\* the admin routes: the users of the auth service with their metadata, the
\* module's _cache and _cache_timestamps, time.time(), and the answer to the
\* last admin call
VARIABLES users, cache, cache_timestamps, now, admin_http

\* the AI provider: the instance's current_provider, the value of the
\* 'ai_provider' row of app_settings, what the environment configures, and
\* how the last call on the instance ended
VARIABLES current_provider, app_settings, configured, provider_result

validateVars == <<v_plan, v_result>>

\* the variables the request pipeline never touches
extractVars == <<x_json, x_style, x_plain, x_fenced>>
sideVars == <<validateVars, extractVars, clients, http,
              current_provider, app_settings, configured, provider_result,
              users, cache, cache_timestamps, now, admin_http>>

vars == <<pipelineVars, sideVars>>

selVars == <<candidates, attempt, ai_prompt, sel_sent, selResp, selCalls, selStatus,
             selected_diagnosis>>
genVars == <<genAttempt, ncp_prompt, gen_sent, genResp, genCalls, ncp_data>>
inputVars == <<embedding_keywords, original_assessment>>
parseVars == <<parsed, parse_outcome, next_id>>
retrVars == <<embedCalls, embedResult, searchCalls, searchResult>>

\* one attempt too many
ncp_max_retries_four == 3 + 1

\* one attempt too few
ncp_max_retries_two == 3 - 1

\* attempts of the generation loop (default of the max_retries parameter)
ncp_max_retries == 3

\* values a client can send as embedding_keywords
KeywordInputs ==
    { Missing, Str(<<"dyspnea", "tachypnea">>), D([chief_complaint |-> Str(<<"dyspnea">>)]) }

\* values a client can send as original_assessment
AssessmentInputs ==
    { Missing, D([subjective |-> L(<<Text10>>), objective |-> L(<<Text10>>)]) }

\* responses of the keyword oracle in parse_manual_assessment
ParseResponses ==
    { [kind |-> "raise"] }
    \cup { [kind |-> k, usage |-> u] : k \in {"ok", "nocontent"}, u \in UsagePool }

\* responses of the generation oracle
GenResponses ==
    { [kind |-> "raise"] }
    \cup { [kind |-> k, usage |-> u] : k \in {"nocontent", "nojson", "badjson"},
                                       u \in UsagePool }
    \cup { [kind |-> "obj", usage |-> u, plan |-> p] : u \in UsagePool, p \in PlanPool }

NoOutcome == [status |-> 0]

\* the state of the pipeline and of the tracker after start-up
PipelineInit ==
    /\ pc = "idle"
    /\ parsed = FALSE
    /\ parse_outcome = NoOutcome
    /\ embedding_keywords = NoneV
    /\ original_assessment = NoneV
    /\ candidates = <<>>
    /\ attempt = 0
    /\ ai_prompt = NoneV
    /\ sel_sent = NoneV
    /\ selResp = NoneV
    /\ selCalls = 0
    /\ selStatus = "none"
    /\ selected_diagnosis = NoneV
    /\ genAttempt = 0
    /\ ncp_prompt = NoneV
    /\ gen_sent = NoneV
    /\ genResp = NoneV
    /\ genCalls = 0
    /\ ncp_data = NoneV
    /\ embedCalls = 0
    /\ embedResult = "none"
    /\ searchCalls = 0
    /\ searchResult = "none"
    /\ outcome = NoOutcome
    /\ current_request = NoneV
    /\ files = <<>>
    /\ next_id = 1

\* no call of validate_ncp_structure outside the pipeline
ValidateIdle ==
    /\ v_plan = NoneV
    /\ v_result = "none"

\* no extraction outside the pipeline
ExtractIdle ==
    /\ x_json = NoneV
    /\ x_style = NoneV
    /\ x_plain = NoneV
    /\ x_fenced = NoneV

\* one caller, the one whose request the pipeline variables follow; its
\* responses are parse_outcome and outcome
OneClient == clients = <<>> /\ http = <<>>

\* the admin module with no user and nothing cached
NoEntries == [cache_key \in {} |-> 0]

AdminIdle ==
    /\ users = NoEntries
    /\ cache = NoEntries
    /\ cache_timestamps = NoEntries
    /\ now = 0
    /\ admin_http = [endpoint |-> "none"]

\* the provider module before it is imported
ProviderIdle ==
    /\ current_provider = "claude"
    /\ app_settings = "<no row>"
    /\ configured = [claude_client |-> FALSE, gemini_available |-> FALSE, supabase |-> FALSE]
    /\ provider_result = [op |-> "none"]

Init ==
    /\ PipelineInit
    /\ ValidateIdle
    /\ ExtractIdle
    /\ OneClient
    /\ ProviderIdle
    /\ AdminIdle

----------------------------------------------------------------------------
(* parse_manual_assessment *)

\* the whole handler: start tracking, one oracle call, track it, answer
ParseManualAssessment(resp) ==
    /\ UNCHANGED sideVars
    /\ pc = "idle"
    /\ ~parsed
    /\ parsed' = TRUE
    /\ next_id' = next_id + 1
    /\ LET started == NewRequest(next_id, "manual_assessment")
           tracked == IF resp.kind = "raise" THEN started
                      ELSE track_api_call(started, resp, "parse_assessment",
                                          "Manual Assessment Parsing")
       IN  IF resp.kind = "ok"
           THEN /\ current_request' = tracked
                /\ files' = files
                /\ parse_outcome' = [status |-> 200, request_id |-> next_id]
           ELSE LET failed == track_error(tracked, "parse_assessment", resp.kind)
                IN  /\ files' = save_request_data(files, failed, <<>>, "failed")
                    /\ current_request' = complete_ncp_request(failed)
                    /\ parse_outcome' =
                          [status |-> 500,
                           detail |-> [message |-> "Failed to parse manual assessment",
                                       error_type |-> "parsing_error",
                                       suggestion |-> "Please check your assessment data format and try again."]]
    /\ UNCHANGED <<pc, inputVars, selVars, genVars, retrVars, outcome>>

----------------------------------------------------------------------------
(* suggest_diagnoses *)

\* the failed request answers with whatever was selected so far
Fail500Partial(cur, error_message) ==
    LET failed == track_error(cur, "suggest_diagnoses", error_message)
    IN  /\ files' = save_request_data(files, failed, <<>>, "failed")
        /\ current_request' = complete_ncp_request(failed)
        /\ outcome' = [status |-> 200, body |-> selected_diagnosis]
        /\ pc' = "done"

\* except Exception in suggest_diagnoses: track, complete as failed, HTTP 500
Fail500(cur, error_message) ==
    LET failed == track_error(cur, "suggest_diagnoses", error_message)
    IN  /\ files' = save_request_data(files, failed, <<>>, "failed")
        /\ current_request' = complete_ncp_request(failed)
        /\ outcome' = [status |-> 500,
                       detail |-> [message |-> <<"Failed to suggest diagnoses", error_message>>,
                                   error_type |-> "diagnosis_error",
                                   suggestion |-> "Please try again with different assessment data."]]
        /\ pc' = "done"

\* a missing input: track, complete as failed, HTTP 400; the second
\* complete_ncp_request in "except HTTPException" finds no active request
Fail400(message, suggestion) ==
    LET failed == track_error(current_request, "suggest_diagnoses", message)
        saved == save_request_data(files, failed, <<>>, "failed")
        cleared == complete_ncp_request(failed)
    IN  /\ files' = save_request_data(saved, cleared, <<>>, "failed")
        /\ current_request' = complete_ncp_request(cleared)
        /\ outcome' = [status |-> 400,
                       detail |-> [message |-> message,
                                   error_type |-> "missing_data",
                                   suggestion |-> suggestion]]
        /\ pc' = "done"

\* entry of the handler and the two input checks
SuggestBegin(kw, orig) ==
    /\ UNCHANGED sideVars
    /\ pc = "idle"
    /\ embedding_keywords' = kw
    /\ original_assessment' = orig
    /\ IF ~Truthy(kw)
       THEN Fail400("Embedding keywords are required",
                    "Please ensure assessment data is properly parsed first.")
       ELSE IF ~Truthy(orig)
            THEN Fail400("Original assessment data is required",
                         "Please provide the original assessment data.")
            ELSE /\ pc' = "embed"
                 /\ UNCHANGED <<outcome, current_request, files>>
    /\ UNCHANGED <<parseVars, selVars, genVars, retrVars>>

\* format_assessment_for_embedding calls .get on its argument
FormatRaises(assessment_data) == assessment_data.t # "dict"

\* a failed embedding call is made again instead of being propagated
EmbedAssessmentRetry(result) ==
    /\ UNCHANGED sideVars
    /\ pc = "embed"
    /\ IF FormatRaises(embedding_keywords)
       THEN /\ Fail500(current_request, "AttributeError")
            /\ embedCalls' = embedCalls
            /\ embedResult' = "format_error"
       ELSE /\ embedCalls' = embedCalls + 1
            /\ embedResult' = result
            /\ IF result = "raise"
               THEN UNCHANGED <<pc, outcome, current_request, files>>
               ELSE /\ pc' = "search"
                    /\ UNCHANGED <<outcome, current_request, files>>
    /\ UNCHANGED <<parseVars, inputVars, selVars, genVars, searchCalls, searchResult>>

\* embed_assessment_data: format the query, one call of the embedding oracle
EmbedAssessment(result) ==
    /\ UNCHANGED sideVars
    /\ pc = "embed"
    /\ IF FormatRaises(embedding_keywords)
       THEN /\ Fail500(current_request, "AttributeError")
            /\ embedCalls' = embedCalls
            /\ embedResult' = "format_error"
       ELSE /\ embedCalls' = embedCalls + 1
            /\ embedResult' = result
            /\ IF result = "raise"
               THEN Fail500(current_request, "embedding error")
               ELSE /\ pc' = "search"
                    /\ UNCHANGED <<outcome, current_request, files>>
    /\ UNCHANGED <<parseVars, inputVars, selVars, genVars, searchCalls, searchResult>>

\* the generation prompt built at the entry of generate_structured_ncp
NcpPrompt(assessment_data, selected) ==
    [assessment |-> assessment_data,
     diagnosis |-> selected.diagnosis,
     definition |-> selected.definition,
     defining_characteristics |-> selected.defining_characteristics,
     related_factors |-> selected.related_factors,
     risk_factors |-> selected.risk_factors,
     suggested_outcomes |-> selected.suggested_outcomes,
     suggested_interventions |-> selected.suggested_interventions]

\* select_best_diagnosis returns to suggest_diagnoses
ReturnSelection(selected, status) ==
    /\ selected_diagnosis' = selected
    /\ selStatus' = status
    /\ pc' = "selected"

\* the similarity search, the mapping of its rows, and the entry of
\* select_best_diagnosis (sentinel for no candidates, else the prompt)
SearchCandidates(result, rows) ==
    /\ UNCHANGED sideVars
    /\ pc = "search"
    /\ searchCalls' = searchCalls + 1
    /\ searchResult' = result
    /\ IF result = "raise"
       THEN /\ Fail500(current_request, "search error")
            /\ UNCHANGED selVars
       ELSE LET found == MapRows(rows)
            IN  /\ candidates' = found
                /\ IF found = <<>>
                   THEN /\ ReturnSelection(NoDiagnosisResult, "SENTINEL")
                        /\ UNCHANGED <<attempt, ai_prompt>>
                   ELSE /\ ai_prompt' = InitialPrompt(original_assessment, found)
                        /\ attempt' = 0
                        /\ pc' = "select"
                        /\ UNCHANGED <<selected_diagnosis, selStatus>>
                /\ UNCHANGED <<sel_sent, selResp, selCalls, outcome, current_request, files>>
    /\ UNCHANGED <<parseVars, inputVars, genVars, embedCalls, embedResult>>

\* one iteration of the selection loop: one oracle call and its handling;
\* the fallback follows the last failed iteration
SelectAttempt(resp) ==
    /\ UNCHANGED sideVars
    /\ pc = "select"
    /\ attempt < max_retries
    /\ selCalls' = selCalls + 1
    /\ sel_sent' = ai_prompt
    /\ selResp' = resp
    /\ LET verdict == SelVerdict(resp, candidates)
       IN  IF verdict = "valid"
           THEN /\ ReturnSelection(find_matching_candidate(resp, candidates), "ACCEPTED")
                /\ UNCHANGED <<attempt, ai_prompt>>
           ELSE /\ attempt' = attempt + 1
                /\ ai_prompt' = IF verdict = "invalid" /\ attempt < max_retries - 1
                                THEN AddCorrection(ai_prompt, resp, candidates)
                                ELSE ai_prompt
                /\ IF attempt + 1 = max_retries
                   THEN ReturnSelection(FallbackResult(candidates), "EXHAUSTED")
                   ELSE UNCHANGED <<selected_diagnosis, selStatus, pc>>
    /\ UNCHANGED <<parseVars, inputVars, candidates, genVars, retrVars,
                   outcome, current_request, files>>

\* the "no diagnosis" sentinel ends the request without a plan
StartGenerationStopOnSentinel ==
    /\ UNCHANGED sideVars
    /\ pc = "selected"
    /\ attempt' = 0
    /\ ai_prompt' = NoneV
    /\ sel_sent' = NoneV
    /\ selResp' = NoneV
    /\ IF selStatus = "SENTINEL"
       THEN /\ Fail500(current_request, "no diagnosis")
            /\ UNCHANGED <<ncp_prompt, genAttempt>>
       ELSE /\ ncp_prompt' = NcpPrompt(original_assessment, selected_diagnosis)
            /\ genAttempt' = 0
            /\ pc' = "generate"
            /\ UNCHANGED <<outcome, current_request, files>>
    /\ UNCHANGED <<parseVars, inputVars, candidates, selCalls, selStatus, selected_diagnosis,
                   gen_sent, genResp, genCalls, ncp_data, retrVars>>

\* the call of generate_structured_ncp with the selection result: the
\* locals of select_best_diagnosis are gone, the generation prompt is built
StartGeneration ==
    /\ UNCHANGED sideVars
    /\ pc = "selected"
    /\ ncp_prompt' = NcpPrompt(original_assessment, selected_diagnosis)
    /\ genAttempt' = 0
    /\ attempt' = 0
    /\ ai_prompt' = NoneV
    /\ sel_sent' = NoneV
    /\ selResp' = NoneV
    /\ pc' = "generate"
    /\ UNCHANGED <<parseVars, inputVars, candidates, selCalls, selStatus, selected_diagnosis,
                   gen_sent, genResp, genCalls, ncp_data, retrVars,
                   outcome, current_request, files>>

\* every parsed object is accepted, validation skipped
GenVerdictNoValidation(resp) ==
    CASE resp.kind = "raise" -> "exception"
      [] resp.kind = "nocontent" -> "exception"
      [] resp.kind = "nojson" -> "no_json"
      [] resp.kind = "badjson" -> "decode_error"
      [] OTHER -> "valid"

\* how one iteration of the generation loop ends for a response
GenVerdict(resp) ==
    CASE resp.kind = "raise" -> "exception"
      [] resp.kind = "nocontent" -> "exception"
      [] resp.kind = "nojson" -> "no_json"
      [] resp.kind = "badjson" -> "decode_error"
      [] OTHER ->
           IF ValidateRaises(resp.plan) THEN "exception"
           ELSE IF validate_ncp_structure(resp.plan) THEN "valid" ELSE "invalid"

\* the message tracked by generate_structured_ncp on the last attempt
GenErrorMessage(verdict) ==
    IF verdict = "decode_error" THEN "JSON parsing failed" ELSE "NCP generation failed"

\* a plan that fails validation adds a correction to the prompt
GenAttemptAugmenting(resp) ==
    /\ UNCHANGED sideVars
    /\ pc = "generate"
    /\ genAttempt < ncp_max_retries
    /\ genCalls' = genCalls + 1
    /\ gen_sent' = ncp_prompt
    /\ genResp' = resp
    /\ LET verdict == GenVerdict(resp)
           tracked == IF resp.kind = "raise" THEN current_request
                      ELSE track_api_call(current_request, resp, "generate_ncp",
                                          [attempt |-> genAttempt + 1,
                                           max_retries |-> ncp_max_retries,
                                           diagnosis |-> selected_diagnosis.diagnosis])
       IN  IF verdict = "valid"
           THEN LET final_result == [ncp |-> resp.plan] @@ selected_diagnosis
                IN  /\ ncp_data' = resp.plan
                    /\ files' = save_request_data(files, tracked, final_result, "completed")
                    /\ current_request' = complete_ncp_request(tracked)
                    /\ outcome' = [status |-> 200, body |-> final_result]
                    /\ pc' = "done"
                    /\ UNCHANGED genAttempt
           ELSE /\ genAttempt' = genAttempt + 1
                /\ UNCHANGED ncp_data
                /\ IF genAttempt = ncp_max_retries - 1
                   THEN Fail500(track_error(tracked, "generate_ncp", GenErrorMessage(verdict)),
                                GenErrorMessage(verdict))
                   ELSE /\ current_request' = tracked
                        /\ UNCHANGED <<files, outcome, pc>>
    /\ ncp_prompt' = IF GenVerdict(resp) = "invalid"
                     THEN [correction |-> "invalid structure"] @@ ncp_prompt
                     ELSE ncp_prompt
    /\ UNCHANGED <<parseVars, inputVars, selVars, retrVars>>

----------------------------------------------------------------------------
\* one iteration of the generation loop: one oracle call, its tracking and
\* its handling; a valid plan completes the request, the last failed
\* iteration raises into the handler of suggest_diagnoses
GenAttempt(resp) ==
    /\ UNCHANGED sideVars
    /\ pc = "generate"
    /\ genAttempt < ncp_max_retries
    /\ genCalls' = genCalls + 1
    /\ gen_sent' = ncp_prompt
    /\ genResp' = resp
    /\ LET verdict == GenVerdict(resp)
           tracked == IF resp.kind = "raise" THEN current_request
                      ELSE track_api_call(current_request, resp, "generate_ncp",
                                          [attempt |-> genAttempt + 1,
                                           max_retries |-> ncp_max_retries,
                                           diagnosis |-> selected_diagnosis.diagnosis])
       IN  IF verdict = "valid"
           THEN LET final_result == [ncp |-> resp.plan] @@ selected_diagnosis
                IN  /\ ncp_data' = resp.plan
                    /\ files' = save_request_data(files, tracked, final_result, "completed")
                    /\ current_request' = complete_ncp_request(tracked)
                    /\ outcome' = [status |-> 200, body |-> final_result]
                    /\ pc' = "done"
                    /\ UNCHANGED genAttempt
           ELSE /\ genAttempt' = genAttempt + 1
                /\ UNCHANGED ncp_data
                /\ IF genAttempt = ncp_max_retries - 1
                   THEN Fail500(track_error(tracked, "generate_ncp", GenErrorMessage(verdict)),
                                GenErrorMessage(verdict))
                   ELSE /\ current_request' = tracked
                        /\ UNCHANGED <<files, outcome, pc>>
    /\ UNCHANGED <<parseVars, inputVars, selVars, ncp_prompt, retrVars>>

----------------------------------------------------------------------------
(* Specification *)

Next ==
    \/ \E resp \in ParseResponses : ParseManualAssessment(resp)
    \/ \E kw \in KeywordInputs, orig \in AssessmentInputs : SuggestBegin(kw, orig)
    \/ \E result \in {"ok", "raise"} : EmbedAssessment(result)
    \/ \E result \in {"ok", "raise"}, rows \in RowLists : SearchCandidates(result, rows)
    \/ \E resp \in SelResponses : SelectAttempt(resp)
    \/ StartGeneration
    \/ \E resp \in GenResponses : GenAttempt(resp)

Spec == Init /\ [][Next]_vars

----------------------------------------------------------------------------
(* validate_ncp_structure applied to plans of every shape *)

\* one intervention entry
Item(id) == D([id |-> Str(<<id>>), intervention |-> Text10])

\* one rationale entry
Why == D([rationale |-> Text10, evidence |-> Text10])

\* values of the outcomes section
OutcomesPool ==
    { D([short_term |-> D([timeframes |-> D([h2 |-> L(<<Text10>>)])]),
         long_term |-> D([timeframes |-> D(<<>>)])]),
      D([short_term |-> D([timeframes |-> D(<<>>)]),
         long_term |-> D([timeframes |-> D(<<>>)])]),
      D([short_term |-> D(<<>>), long_term |-> NoneV, note |-> Text10]),
      D([short_term |-> D(<<>>), long_term |-> D(<<>>)]),
      D([short_term |-> Num(5), note |-> Text10]),
      D([long_term |-> Text10]) }

\* values of the interventions section
InterventionsPool ==
    { D([independent |-> L(<<Item("i1")>>), dependent |-> L(<<>>),
         collaborative |-> L(<<>>)]),
      D([independent |-> L(<<Item("i1")>>), dependent |-> L(<<Item("i2")>>)]),
      D([independent |-> L(<<>>), dependent |-> L(<<>>), note |-> Text10]),
      D([independent |-> L(<<>>), dependent |-> L(<<>>), collaborative |-> L(<<>>)]),
      D([collaborative |-> Num(5)]),
      D([independent |-> Text10]) }

\* values of the rationale section
RationalePool ==
    { D([interventions |-> D([i1 |-> Why])]),
      D([interventions |-> D([i1 |-> Why, i2 |-> Why])]),
      D([interventions |-> D(<<>>), summary |-> Text10]),
      D([summary |-> Text10]),
      Text10 }

\* the plans handed to validate_ncp_structure
ValidatePlans ==
    { With(With(With(FullPlan, "outcomes", o), "interventions", i), "rationale", r) :
        o \in OutcomesPool, i \in InterventionsPool, r \in RationalePool }
    \cup { Without(FullPlan, section) : section \in required_sections }

InitValidate ==
    /\ PipelineInit
    /\ v_plan \in ValidatePlans
    /\ v_result = "none"
    /\ ExtractIdle
    /\ OneClient
    /\ ProviderIdle
    /\ AdminIdle

\* one call of validate_ncp_structure
ValidateNcp ==
    /\ v_result = "none"
    /\ v_result' = IF ValidateRaises(v_plan) THEN "TypeError"
                   ELSE IF validate_ncp_structure(v_plan) THEN "True" ELSE "False"
    /\ UNCHANGED <<pipelineVars, v_plan, extractVars, clients, http,
                   current_provider, app_settings, configured, provider_result,
                   users, cache, cache_timestamps, now, admin_http>>

NextValidate == ValidateNcp

SpecValidate == InitValidate /\ [][NextValidate]_vars

----------------------------------------------------------------------------
(* Extraction of the JSON object from an oracle response (both retry loops) *)

(* A response text is a sequence of tokens: "{", "}", "q" (a double quote), *)
(* "F" (three backticks), "j" (the word json), " " (white space), "BOM"     *)
(* (U+FEFF) and "x" (any run of other characters).                         *)

\* tokens between the braces of a JSON object text
JsonAlphabet == {"{", "}", "q", "F", "x", " "}

\* raw_response.encode('utf-8').decode('utf-8-sig'): a leading BOM is dropped
DecodeSig(s) == IF s # <<>> /\ Head(s) = "BOM" THEN Tail(s) ELSE s

\* the position after the white space that starts at i
RECURSIVE SkipSpace(_, _)
SkipSpace(s, i) == IF i <= Len(s) /\ IsSpace(s[i]) THEN SkipSpace(s, i + 1) ELSE i

\* "}" at q followed by \s* and a fence
ClosesAt(s, q) ==
    /\ s[q] = "}"
    /\ LET k == SkipSpace(s, q + 1) IN k <= Len(s) /\ s[k] = "F"

\* the match of ```(?:json)?\s*(\{.*?\})\s*``` that starts at the fence at i:
\* the positions of the group, <<0, 0>> when there is none
MatchFrom(s, i) ==
    LET a == IF i + 1 <= Len(s) /\ s[i + 1] = "j" THEN i + 2 ELSE i + 1
        p == SkipSpace(s, a)
    IN  IF s[i] = "F" /\ p <= Len(s) /\ s[p] = "{"
           /\ \E q \in (p + 1)..Len(s) : ClosesAt(s, q)
        THEN <<p, CHOOSE q \in (p + 1)..Len(s) :
                     /\ ClosesAt(s, q)
                     /\ \A r \in (p + 1)..(q - 1) : ~ClosesAt(s, r)>>
        ELSE <<0, 0>>

\* re.search: the match at the leftmost position that has one
FenceSearch(s) ==
    LET starts == { i \in DOMAIN s : MatchFrom(s, i) # <<0, 0>> }
    IN  IF starts = {} THEN <<0, 0>>
        ELSE MatchFrom(s, CHOOSE i \in starts : \A k \in starts : i <= k)

\* str.find and str.rfind of one token, 0 for -1
Find(s, c) ==
    IF \E i \in DOMAIN s : s[i] = c
    THEN CHOOSE i \in DOMAIN s : s[i] = c /\ \A k \in 1..(i - 1) : s[k] # c
    ELSE 0
RFind(s, c) ==
    IF \E i \in DOMAIN s : s[i] = c
    THEN CHOOSE i \in DOMAIN s : s[i] = c /\ \A k \in (i + 1)..Len(s) : s[k] # c
    ELSE 0

\* does json.loads accept the text from position i on, inside depth open
\* objects and inside a string or not
RECURSIVE JsonScan(_, _, _, _)
JsonScan(s, i, depth, instr) ==
    IF i > Len(s) THEN FALSE
    ELSE IF instr THEN JsonScan(s, i + 1, depth, s[i] # "q")
    ELSE CASE s[i] = "{" -> JsonScan(s, i + 1, depth + 1, FALSE)
           [] s[i] = "}" ->
                /\ depth > 0
                /\ IF depth = 1 THEN \A k \in (i + 1)..Len(s) : IsSpace(s[k])
                   ELSE JsonScan(s, i + 1, depth - 1, FALSE)
           [] s[i] = "q" -> depth > 0 /\ JsonScan(s, i + 1, depth, TRUE)
           [] s[i] = "x" -> depth > 0 /\ JsonScan(s, i + 1, depth, FALSE)
           [] IsSpace(s[i]) -> JsonScan(s, i + 1, depth, FALSE)
           [] OTHER -> FALSE

\* the parsed object: the text without the white space outside strings
RECURSIVE JsonValue(_, _)
JsonValue(s, instr) ==
    IF s = <<>> THEN <<>>
    ELSE IF instr THEN <<Head(s)>> \o JsonValue(Tail(s), Head(s) # "q")
    ELSE IF IsSpace(Head(s)) THEN JsonValue(Tail(s), FALSE)
    ELSE <<Head(s)>> \o JsonValue(Tail(s), Head(s) = "q")

\* json.loads
JsonLoads(s) ==
    IF JsonScan(s, 1, 0, FALSE) THEN [kind |-> "obj", value |-> JsonValue(s, FALSE)]
    ELSE [kind |-> "decode_error"]

\* the extraction of both retry loops, from response.text to the object
ExtractJson(text) ==
    LET raw_response == Strip(text)
        decoded == DecodeSig(raw_response)
        json_match == FenceSearch(decoded)
        cleaned_response == IF json_match # <<0, 0>>
                            THEN SubSeq(decoded, json_match[1], json_match[2])
                            ELSE decoded
        start_brace == Find(cleaned_response, "{")
        end_brace == RFind(cleaned_response, "}")
    IN  IF start_brace # 0 /\ end_brace # 0
        THEN JsonLoads(SubSeq(cleaned_response, start_brace, end_brace))
        ELSE [kind |-> "no_json"]

\* the texts of JSON objects: an opening brace, up to MaxInner tokens and
\* a closing brace, accepted by json.loads
JsonTexts ==
    { s \in { <<"{">> \o inner \o <<"}">> :
                inner \in UNION { [1..n -> JsonAlphabet] : n \in 0..MaxInner } } :
        JsonScan(s, 1, 0, FALSE) }

\* how the oracle presents the object: with or without the json tag, with or
\* without white space inside the fences, with or without a leading BOM
FenceStyles == [tag : BOOLEAN, space : BOOLEAN, bom : BOOLEAN]

\* the response that holds the text in a fenced block
Fenced(json, style) ==
    (IF style.bom THEN <<"BOM">> ELSE <<>>)
    \o <<"F">> \o (IF style.tag THEN <<"j">> ELSE <<>>)
    \o (IF style.space THEN <<" ">> ELSE <<>>)
    \o json
    \o (IF style.space THEN <<" ">> ELSE <<>>) \o <<"F">>

\* the response that holds the text alone
Unwrapped(json, style) == (IF style.bom THEN <<"BOM">> ELSE <<>>) \o json

InitExtract ==
    /\ PipelineInit
    /\ ValidateIdle
    /\ x_json \in JsonTexts
    /\ x_style \in FenceStyles
    /\ x_plain = NoneV
    /\ x_fenced = NoneV
    /\ OneClient
    /\ ProviderIdle
    /\ AdminIdle

\* the extraction applied to the unwrapped response
ExtractPlain ==
    /\ x_plain = NoneV
    /\ x_plain' = ExtractJson(Unwrapped(x_json, x_style))
    /\ UNCHANGED <<pipelineVars, validateVars, x_json, x_style, x_fenced, clients, http,
                   current_provider, app_settings, configured, provider_result,
                   users, cache, cache_timestamps, now, admin_http>>

\* the extraction applied to the fenced response
ExtractFenced ==
    /\ x_fenced = NoneV
    /\ x_fenced' = ExtractJson(Fenced(x_json, x_style))
    /\ UNCHANGED <<pipelineVars, validateVars, x_json, x_style, x_plain, clients, http,
                   current_provider, app_settings, configured, provider_result,
                   users, cache, cache_timestamps, now, admin_http>>

NextExtract ==
    \/ ExtractPlain
    \/ ExtractFenced

SpecExtract == InitExtract /\ [][NextExtract]_vars

----------------------------------------------------------------------------
(* Two callers on one server: the handlers run one at a time (they never   *)
(* yield to the event loop), in any order, over the one global tracker     *)

Clients == {"a", "b"}

\* parse_manual_assessment as a function of the tracker it finds
ParseEffect(cur, saved, request_id, resp) ==
    LET started == NewRequest(request_id, "manual_assessment")
        tracked == IF resp.kind = "raise" THEN started
                   ELSE track_api_call(started, resp, "parse_assessment",
                                       "Manual Assessment Parsing")
        failed == track_error(tracked, "parse_assessment", resp.kind)
    IN  IF resp.kind = "ok"
        THEN [cur |-> tracked, files |-> saved,
              outcome |-> [status |-> 200, request_id |-> request_id]]
        ELSE [cur |-> complete_ncp_request(failed),
              files |-> save_request_data(saved, failed, <<>>, "failed"),
              outcome |-> [status |-> 500,
                           detail |-> [message |-> "Failed to parse manual assessment",
                                       error_type |-> "parsing_error",
                                       suggestion |-> "Please check your assessment data format and try again."]]]

\* the failure paths of suggest_diagnoses as a function of the tracker
FailEffect(cur, saved, status, message, error_type, suggestion) ==
    LET failed == track_error(cur, "suggest_diagnoses", message)
    IN  [cur |-> complete_ncp_request(failed),
         files |-> save_request_data(saved, failed, <<>>, "failed"),
         outcome |-> [status |-> status,
                      detail |-> [message |-> message, error_type |-> error_type,
                                  suggestion |-> suggestion]]]

\* the generation loop from attempt k on, and the end of suggest_diagnoses
RECURSIVE GenerateEffect(_, _, _, _, _)
GenerateEffect(cur, saved, selected, resps, k) ==
    LET resp == resps[k]
        verdict == GenVerdict(resp)
        tracked == IF resp.kind = "raise" THEN cur
                   ELSE track_api_call(cur, resp, "generate_ncp",
                                       [attempt |-> k,
                                        max_retries |-> ncp_max_retries,
                                        diagnosis |-> selected.diagnosis])
        final_result == [ncp |-> resp.plan] @@ selected
    IN  IF verdict = "valid"
        THEN [cur |-> complete_ncp_request(tracked),
              files |-> save_request_data(saved, tracked, final_result, "completed"),
              outcome |-> [status |-> 200, body |-> final_result]]
        ELSE IF k = ncp_max_retries
        THEN FailEffect(track_error(tracked, "generate_ncp", GenErrorMessage(verdict)),
                        saved, 500,
                        <<"Failed to suggest diagnoses", GenErrorMessage(verdict)>>,
                        "diagnosis_error",
                        "Please try again with different assessment data.")
        ELSE GenerateEffect(tracked, saved, selected, resps, k + 1)

\* responses of the generation oracle in the two-caller runs
ConcGenResponses ==
    { [kind |-> "raise"] }
    \cup { [kind |-> "nojson", usage |-> u] : u \in UsagePool }
    \cup { [kind |-> "obj", usage |-> u, plan |-> FullPlan] : u \in UsagePool }

\* what a suggest_diagnoses call meets: a missing input, a retrieval error,
\* or a selection followed by the answers of the generation oracle
Scenarios ==
    { [kind |-> "missing_data"], [kind |-> "retrieval_error"] }
    \cup { [kind |-> "generate", selected |-> FallbackResult(MapRows(<<row>>)), resps |-> r] :
             row \in { x \in RowPool : x.id # 2 },
             r \in [1..ncp_max_retries -> ConcGenResponses] }

\* suggest_diagnoses as a function of the tracker it finds
SuggestEffect(cur, saved, scenario) ==
    CASE scenario.kind = "missing_data" ->
           FailEffect(cur, saved, 400, "Embedding keywords are required", "missing_data",
                      "Please ensure assessment data is properly parsed first.")
      [] scenario.kind = "retrieval_error" ->
           FailEffect(cur, saved, 500, <<"Failed to suggest diagnoses", "search error">>,
                      "diagnosis_error", "Please try again with different assessment data.")
      [] OTHER -> GenerateEffect(cur, saved, scenario.selected, scenario.resps, 1)

\* a caller before its first call; alone is the tracker of the same calls
\* made with no other caller
NewClient ==
    [phase |-> "new", outcome |-> NoOutcome,
     alone |-> [cur |-> NoneV, files |-> <<>>, outcome |-> NoOutcome]]

InitConc ==
    /\ PipelineInit
    /\ ValidateIdle
    /\ ExtractIdle
    /\ ProviderIdle
    /\ AdminIdle
    /\ clients = [c \in Clients |-> NewClient]
    /\ http = <<>>

concFrame == <<pc, parsed, parse_outcome, inputVars, selVars, genVars, retrVars, outcome,
               validateVars, extractVars, http,
               current_provider, app_settings, configured, provider_result,
               users, cache, cache_timestamps, now, admin_http>>

\* caller c posts to /api/parse-manual-assessment
ConcParse(c, resp) ==
    /\ clients[c].phase = "new"
    /\ LET here == ParseEffect(current_request, files, next_id, resp)
           alone == ParseEffect(NoneV, <<>>, next_id, resp)
       IN  /\ current_request' = here.cur
           /\ files' = here.files
           /\ clients' = [clients EXCEPT ![c] =
                            [phase |-> IF resp.kind = "ok" THEN "parsed" ELSE "done",
                             outcome |-> here.outcome,
                             alone |-> alone]]
    /\ next_id' = next_id + 1
    /\ UNCHANGED concFrame

\* caller c, whose assessment was parsed, posts to /api/suggest-diagnoses
ConcSuggest(c, scenario) ==
    /\ clients[c].phase = "parsed"
    /\ LET here == SuggestEffect(current_request, files, scenario)
           alone == SuggestEffect(clients[c].alone.cur, clients[c].alone.files, scenario)
       IN  /\ current_request' = here.cur
           /\ files' = here.files
           /\ clients' = [clients EXCEPT ![c] =
                            [phase |-> "done", outcome |-> here.outcome, alone |-> alone]]
    /\ UNCHANGED <<next_id, concFrame>>

NextConc ==
    \/ \E c \in Clients, resp \in ParseResponses : ConcParse(c, resp)
    \/ \E c \in Clients, scenario \in Scenarios : ConcSuggest(c, scenario)

SpecConc == InitConc /\ [][NextConc]_vars

----------------------------------------------------------------------------
(* The four endpoints and what each answers *)

\* raise HTTPException(status_code, detail={message, error_type, suggestion})
HttpError(status, message, error_type, suggestion) ==
    [status |-> status,
     detail |-> [message |-> message, error_type |-> error_type, suggestion |-> suggestion]]

\* an exception that is not an HTTPException leaves the handler: the server
\* answers 500 with a fixed plain text and no detail
Unhandled == [status |-> 500, body |-> "Internal Server Error"]

\* bodies posted to /api/generate-ncp, by how validate_assessment_data and
\* format_structured_data end on them
NcpRequests ==
    [assessment : {"sufficient", "insufficient", "malformed"}, format : {"ok", "raise"}]

\* the keys of the sections dict of parse_ncp_response
ncp_sections ==
    {"assessment", "diagnosis", "outcomes", "interventions", "rationale",
     "implementation", "evaluation"}

\* the header line the prompt of generate_ncp asks for, per section
SectionHeader(section) ==
    CASE section = "assessment" -> "**Assessment:**"
      [] section = "diagnosis" -> "**Diagnosis:**"
      [] section = "outcomes" -> "**Outcomes:**"
      [] section = "interventions" -> "**Interventions:**"
      [] section = "rationale" -> "**Rationale:**"
      [] section = "implementation" -> "**Implementation:**"
      [] section = "evaluation" -> "**Evaluation:**"

\* None as the value of current_section and of a failed match
NoSection == "<None>"

\* section_pattern.match(line).group(1).lower(), None when the line is no header
section_pattern(line) ==
    CASE line = "**Assessment:**" -> "assessment"
      [] line = "**Diagnosis:**" -> "diagnosis"
      [] line = "**Outcomes:**" -> "outcomes"
      [] line = "**Interventions:**" -> "interventions"
      [] line = "**Rationale:**" -> "rationale"
      [] line = "**Implementation:**" -> "implementation"
      [] line = "**Evaluation:**" -> "evaluation"
      [] line = "**Notes:**" -> "notes"
      [] line = "**Evaluation of Outcomes:**" -> "evaluation of outcomes"
      [] OTHER -> NoSection

\* the if/elif chain of parse_ncp_response over the keywords that occur in
\* the lowered header name: the first keyword found decides
SectionOfName(section_name) ==
    LET found ==
            CASE section_name = "assessment" -> {"assessment"}
              [] section_name = "diagnosis" -> {"diagnosis"}
              [] section_name = "outcomes" -> {"outcome"}
              [] section_name = "interventions" -> {"intervention"}
              [] section_name = "rationale" -> {"rationale"}
              [] section_name = "implementation" -> {"implementation"}
              [] section_name = "evaluation" -> {"evaluation"}
              [] section_name = "evaluation of outcomes" -> {"evaluation", "outcome"}
              [] OTHER -> {}
    IN  CASE "diagnosis" \in found -> "diagnosis"
          [] "assessment" \in found -> "assessment"
          [] "outcome" \in found \/ "goal" \in found -> "outcomes"
          [] "intervention" \in found -> "interventions"
          [] "rationale" \in found -> "rationale"
          [] "implementation" \in found -> "implementation"
          [] "evaluation" \in found -> "evaluation"
          [] OTHER -> NoSection

\* content.lower() of a one-line content
LowerLine(line) ==
    CASE line = "N/A" -> "n/a"
      [] line = "Not applicable" -> "not applicable"
      [] OTHER -> line

\* the loop over the lines of parse_ncp_response and the save of the last
\* section; a content is the sequence of its lines
RECURSIVE ParseLines(_, _, _, _)
ParseLines(lines, sections, current_section, section_content) ==
    LET saved == IF current_section # NoSection /\ section_content # <<>>
                 THEN [sections EXCEPT ![current_section] = section_content]
                 ELSE sections
    IN  IF lines = <<>> THEN saved
        ELSE LET line == Head(lines)
                 match == section_pattern(line)
             IN  IF match # NoSection
                 THEN ParseLines(Tail(lines), saved, SectionOfName(match), <<>>)
                 ELSE IF current_section # NoSection /\ line # ""
                 THEN ParseLines(Tail(lines), sections, current_section,
                                 Append(section_content, line))
                 ELSE ParseLines(Tail(lines), sections, current_section, section_content)

\* parse_ncp_response: a section without content gets the fallback text
parse_ncp_response(text) ==
    LET sections == ParseLines(text, [section \in ncp_sections |-> <<>>], NoSection, <<>>)
    IN  [section \in ncp_sections |->
            LET content == sections[section]
            IN  IF \/ content = <<>>
                   \/ Len(content) = 1
                      /\ LowerLine(content[1]) \in {"not applicable", "n/a", ""}
                THEN <<"Not provided">>
                ELSE content]

\* oracle texts of generate_ncp: complete, empty, and complete but for one
\* section that has no header, no content, a filler, or a stray header
NcpTexts ==
    LET Text(block) ==
            block["assessment"] \o block["diagnosis"] \o block["outcomes"]
            \o block["interventions"] \o block["rationale"]
            \o block["implementation"] \o block["evaluation"]
        full == [section \in ncp_sections |-> <<SectionHeader(section), "text">>]
    IN  { Text(full), <<>> }
        \cup UNION { { Text([full EXCEPT ![section] = b]) :
                         b \in { <<>>, <<SectionHeader(section)>>,
                                 <<SectionHeader(section), "N/A">> } } :
                       section \in ncp_sections }
        \cup { Text([full EXCEPT !["evaluation"] = b]) :
                 b \in { <<"**Notes:**", "text">>, <<"**Evaluation of Outcomes:**", "text">>,
                         <<"**Evaluation:**", "", "Not applicable">> } }

\* responses of the oracle in generate_ncp
NcpResponses ==
    { [kind |-> "raise"] }
    \cup { [kind |-> k, usage |-> u] : k \in {"nocontent", "notext"}, u \in UsagePool }
    \cup { [kind |-> "text", usage |-> u, text |-> t] : u \in UsagePool, t \in NcpTexts }

\* generate_ncp as a function of the tracker it finds
GenerateNcpEffect(cur, request, resp) ==
    LET tracked == track_api_call(cur, resp, "generate_ncp", "NCP Generation")
    IN  CASE request.assessment = "insufficient" ->
               [cur |-> cur,
                outcome |-> HttpError(400, "validation_error message", "validation_error",
                    "Please review your assessment data and ensure it contains sufficient clinical information.")]
          [] request.assessment = "malformed" ->
               [cur |-> cur,
                outcome |-> HttpError(500, "An unexpected error occurred during NCP generation",
                    "unknown_error", "Please try again. If the problem persists, contact support.")]
          [] request.format = "raise" ->
               [cur |-> cur,
                outcome |-> HttpError(400, "Error formatting assessment data", "formatting_error",
                    "Please check the structure of your assessment data.")]
          [] resp.kind = "raise" ->
               [cur |-> cur,
                outcome |-> HttpError(500, "AI service is currently unavailable", "api_error",
                    "Please try again in a few moments. If the problem persists, contact support.")]
          [] resp.kind = "nocontent" ->
               [cur |-> tracked,
                outcome |-> HttpError(500, "An unexpected error occurred during NCP generation",
                    "unknown_error", "Please try again. If the problem persists, contact support.")]
          [] resp.kind = "notext" ->
               [cur |-> tracked,
                outcome |-> HttpError(500, "Failed to parse AI response into proper format",
                    "parsing_error",
                    "The AI response was malformed. Please try generating the NCP again.")]
          [] OTHER ->
               LET sections == parse_ncp_response(resp.text)
               IN  IF \A section \in ncp_sections : sections[section] # <<>>
                   THEN [cur |-> tracked, outcome |-> [status |-> 200, body |-> sections]]
                   ELSE [cur |-> tracked,
                         outcome |-> HttpError(500,
                             "Failed to parse AI response into proper format",
                             "parsing_error",
                             "The AI response was malformed. Please try generating the NCP again.")]

\* the sections generate_explanation can explain
all_sections ==
    {"diagnosis", "outcomes", "interventions", "rationale", "implementation", "evaluation"}

\* the texts that count as no content
NoContentTexts ==
    { <<>>, <<"n", "/", "a">>, <<"n", "o", "n", "e">>,
      <<"n", "o", "t", " ", "p", "r", "o", "v", "i", "d", "e", "d">> }

\* the sections of the plan that have content
AvailableSections(ncp) ==
    { section \in all_sections :
        LET section_value == DictGet(ncp, section)
        IN  CASE section_value.t = "str" ->
                   Lower(Strip(section_value.s)) \notin NoContentTexts
              [] section_value.t = "none" -> FALSE
              [] OTHER -> TRUE }

\* bodies posted to /api/generate-explanation: the value of 'ncp'
ExplanationRequests ==
    { Missing, D(<<>>), Text10,
      D([title |-> Text10, diagnosis |-> Text10, outcomes |-> Str(<<"n", "/", "a">>),
         interventions |-> L(<<>>), rationale |-> Str(<<" ">>)]) }

\* responses of the oracle in generate_explanation
ExplanationResponses ==
    { [kind |-> "raise"], [kind |-> "notext"], [kind |-> "badjson"], [kind |-> "array"] }
    \cup { [kind |-> "obj", keys |-> k] : k \in { {}, {"diagnosis"}, {"summary"} } }

\* the answer of generate_explanation
ExplanationOutcome(ncp, resp) ==
    IF ~Truthy(ncp) \/ ncp.t # "dict" THEN Unhandled
    ELSE CASE resp.kind \in {"raise", "notext", "array"} -> Unhandled
           [] resp.kind = "badjson" -> [status |-> 200, body |-> AvailableSections(ncp)]
           [] OTHER -> [status |-> 200, body |-> resp.keys \cup AvailableSections(ncp)]

InitEndpoints ==
    /\ PipelineInit
    /\ ValidateIdle
    /\ ExtractIdle
    /\ ProviderIdle
    /\ AdminIdle
    /\ clients = <<>>
    /\ http = <<>>

endpointFrame == <<pc, parsed, parse_outcome, inputVars, selVars, genVars, retrVars, outcome,
                   validateVars, extractVars, clients,
                   current_provider, app_settings, configured, provider_result,
                   users, cache, cache_timestamps, now, admin_http>>

\* POST /api/generate-ncp
CallGenerateNcp(request, resp) ==
    /\ Len(http) < MaxCalls
    /\ LET here == GenerateNcpEffect(current_request, request, resp)
       IN  /\ current_request' = here.cur
           /\ http' = Append(http, [endpoint |-> "generate_ncp", outcome |-> here.outcome])
    /\ UNCHANGED <<files, next_id, endpointFrame>>

\* POST /api/generate-explanation
CallGenerateExplanation(ncp, resp) ==
    /\ Len(http) < MaxCalls
    /\ http' = Append(http, [endpoint |-> "generate_explanation",
                             outcome |-> ExplanationOutcome(ncp, resp)])
    /\ UNCHANGED <<current_request, files, next_id, endpointFrame>>

\* POST /api/parse-manual-assessment
CallParseManualAssessment(resp) ==
    /\ Len(http) < MaxCalls
    /\ LET here == ParseEffect(current_request, files, next_id, resp)
       IN  /\ current_request' = here.cur
           /\ files' = here.files
           /\ http' = Append(http, [endpoint |-> "parse_manual_assessment",
                                    outcome |-> here.outcome])
    /\ next_id' = next_id + 1
    /\ UNCHANGED endpointFrame

\* POST /api/suggest-diagnoses
CallSuggestDiagnoses(scenario) ==
    /\ Len(http) < MaxCalls
    /\ LET here == SuggestEffect(current_request, files, scenario)
       IN  /\ current_request' = here.cur
           /\ files' = here.files
           /\ http' = Append(http, [endpoint |-> "suggest_diagnoses",
                                    outcome |-> here.outcome])
    /\ UNCHANGED <<next_id, endpointFrame>>

NextEndpoints ==
    \/ \E request \in NcpRequests, resp \in NcpResponses : CallGenerateNcp(request, resp)
    \/ \E ncp \in ExplanationRequests, resp \in ExplanationResponses :
          CallGenerateExplanation(ncp, resp)
    \/ \E resp \in ParseResponses : CallParseManualAssessment(resp)
    \/ \E scenario \in Scenarios : CallSuggestDiagnoses(scenario)

SpecEndpoints == InitEndpoints /\ [][NextEndpoints]_vars

----------------------------------------------------------------------------
(* The AI provider: set_provider, the settings row, a restart *)

\* the row is written only when none exists yet
save_provider_to_db_insert_only(conf, setting, provider, db_error) ==
    IF ~conf.supabase THEN setting
    ELSE IF db_error = "upsert" THEN setting
    ELSE IF setting = "<no row>" THEN provider ELSE setting

\* the settings row after _save_provider_to_db(provider)
save_provider_to_db(conf, setting, provider, db_error) ==
    IF ~conf.supabase THEN setting
    ELSE IF db_error = "upsert" THEN setting
    ELSE provider

\* _load_provider_from_db: the provider the instance starts with and the
\* settings row it leaves
load_provider_from_db(conf, setting, db_error) ==
    IF ~conf.supabase THEN [provider |-> "claude", setting |-> setting]
    ELSE IF db_error = "select" THEN [provider |-> "claude", setting |-> setting]
    ELSE IF setting # "<no row>"
    THEN [provider |->
             IF setting = "claude" /\ conf.claude_client THEN "claude"
             ELSE IF setting = "gemini" /\ conf.gemini_available THEN "gemini"
             ELSE "claude",
          setting |-> setting]
    ELSE [provider |-> "claude",
          setting |-> save_provider_to_db(conf, setting, "claude", db_error)]

\* a provider whose API key is missing is accepted
set_provider_unchecked(conf, current, setting, provider, db_error) ==
    IF provider \notin {"claude", "gemini"}
    THEN [raised |-> TRUE, current_provider |-> current, app_settings |-> setting,
          log |-> "-"]
    ELSE [raised |-> FALSE, current_provider |-> provider,
          app_settings |-> save_provider_to_db(conf, setting, provider, db_error),
          log |-> IF ~conf.supabase THEN "cannot save"
                  ELSE IF db_error = "upsert" THEN "save error"
                  ELSE "saved"]

\* set_provider: whether it raised ValueError, and the instance and the
\* settings row it leaves
set_provider(conf, current, setting, provider, db_error) ==
    IF provider \notin {"claude", "gemini"}
    THEN [raised |-> TRUE, current_provider |-> current, app_settings |-> setting,
          log |-> "-"]
    ELSE IF provider = "claude" /\ ~conf.claude_client
    THEN [raised |-> TRUE, current_provider |-> current, app_settings |-> setting,
          log |-> "-"]
    ELSE IF provider = "gemini" /\ ~conf.gemini_available
    THEN [raised |-> TRUE, current_provider |-> current, app_settings |-> setting,
          log |-> "-"]
    ELSE [raised |-> FALSE, current_provider |-> provider,
          app_settings |-> save_provider_to_db(conf, setting, provider, db_error),
          log |-> IF ~conf.supabase THEN "cannot save"
                  ELSE IF db_error = "upsert" THEN "save error"
                  ELSE "saved"]

\* the module is imported: AIProvider() runs with some environment over
\* some earlier contents of the settings row
InitProvider ==
    /\ PipelineInit
    /\ ValidateIdle
    /\ ExtractIdle
    /\ OneClient
    /\ AdminIdle
    /\ configured \in [claude_client : BOOLEAN, gemini_available : BOOLEAN, supabase : BOOLEAN]
    /\ \E before \in {"<no row>", "claude", "gemini"}, db_error \in {"none", "select", "upsert"} :
          LET loaded == load_provider_from_db(configured, before, db_error)
          IN  /\ current_provider = loaded.provider
              /\ app_settings = loaded.setting
              /\ provider_result = [op |-> "init", provider |-> loaded.provider]

\* ai_provider.set_provider(provider), as switch_ai_provider calls it
SetProvider(provider, db_error) ==
    /\ LET here == set_provider(configured, current_provider, app_settings, provider, db_error)
       IN  /\ current_provider' = here.current_provider
           /\ app_settings' = here.app_settings
           /\ provider_result' = [op |-> "set_provider", provider |-> provider,
                                  raised |-> here.raised, log |-> here.log]
    /\ UNCHANGED <<configured, pipelineVars, validateVars, extractVars, clients, http, users,
                   cache, cache_timestamps, now, admin_http>>

\* the server restarts in the same environment: a new AIProvider()
Restart(db_error) ==
    /\ LET loaded == load_provider_from_db(configured, app_settings, db_error)
       IN  /\ current_provider' = loaded.provider
           /\ app_settings' = loaded.setting
           /\ provider_result' = [op |-> "restart", provider |-> loaded.provider,
                                  after |-> IF provider_result.op = "set_provider"
                                            THEN provider_result
                                            ELSE [op |-> provider_result.op]]
    /\ UNCHANGED <<configured, pipelineVars, validateVars, extractVars, clients, http, users,
                   cache, cache_timestamps, now, admin_http>>

NextProvider ==
    \/ \E provider \in {"claude", "gemini", "openai"}, db_error \in {"none", "select", "upsert"} : SetProvider(provider, db_error)
    \/ \E db_error \in {"none", "select", "upsert"} : Restart(db_error)

SpecProvider == InitProvider /\ [][NextProvider]_vars

----------------------------------------------------------------------------
(* The admin routes: the cached reads and the user mutations *)

\* the seconds the clock can show
MaxTime == 30

\* @cache_with_ttl(ttl_seconds=30) of both cached fetches
ttl_seconds == 30

UserIds == {"u1", "u2"}

\* verify_admin: the status it raises, 200 when it returns the user
verify_admin(table, caller) ==
    IF caller \notin DOMAIN table THEN 401
    ELSE IF ~table[caller].is_admin THEN 403
    ELSE 200

\* verify_super_admin
verify_super_admin(table, caller) ==
    IF verify_admin(table, caller) # 200 THEN verify_admin(table, caller)
    ELSE IF (IF table[caller].admin_level = "<None>" THEN "regular"
             ELSE table[caller].admin_level) # "super"
    THEN 403
    ELSE 200

\* the user list fetch_users_data builds
fetch_users_data(table) == table

\* the result of fetch_dashboard_stats_data; the user count is 0 when
\* list_users raised
fetch_dashboard_stats_data(table, listed) ==
    [totalUsers |-> IF listed THEN Cardinality(DOMAIN table) ELSE 0]

\* an entry is served while its age is at most the ttl
cache_with_ttl_inclusive(store, stamps, clock, cache_key, result, raises) ==
    IF /\ cache_key \in DOMAIN store
       /\ clock - (IF cache_key \in DOMAIN stamps THEN stamps[cache_key] ELSE 0)
             <= ttl_seconds
    THEN [cache |-> store, cache_timestamps |-> stamps, called |-> FALSE,
          raised |-> FALSE, value |-> store[cache_key]]
    ELSE IF raises
    THEN [cache |-> store, cache_timestamps |-> stamps, called |-> TRUE,
          raised |-> TRUE, value |-> NoneV]
    ELSE [cache |-> (cache_key :> result) @@ store,
          cache_timestamps |-> (cache_key :> clock) @@ stamps,
          called |-> TRUE, raised |-> FALSE, value |-> result]

\* the wrapper of cache_with_ttl: the stores it leaves, whether it called
\* the wrapped function, whether that raised, and the value it returns
cache_with_ttl(store, stamps, clock, cache_key, result, raises) ==
    IF /\ cache_key \in DOMAIN store
       /\ clock - (IF cache_key \in DOMAIN stamps THEN stamps[cache_key] ELSE 0)
             < ttl_seconds
    THEN [cache |-> store, cache_timestamps |-> stamps, called |-> FALSE,
          raised |-> FALSE, value |-> store[cache_key]]
    ELSE IF raises
    THEN [cache |-> store, cache_timestamps |-> stamps, called |-> TRUE,
          raised |-> TRUE, value |-> NoneV]
    ELSE [cache |-> (cache_key :> result) @@ store,
          cache_timestamps |-> (cache_key :> clock) @@ stamps,
          called |-> TRUE, raised |-> FALSE, value |-> result]

\* the answer to an admin call, and whether the call answered before it was
\* a mutation that succeeded
AdminAnswer(endpoint, status, called, body) ==
    [endpoint |-> endpoint, status |-> status, called |-> called, body |-> body,
     after_mutation |-> /\ admin_http.endpoint \in {"update_user_status", "delete_user", "update_admin_role", "clear_cache"}
                        /\ admin_http.status = 200]

\* the server starts with a super admin and one more user
InitAdmin ==
    /\ PipelineInit
    /\ ValidateIdle
    /\ ExtractIdle
    /\ OneClient
    /\ ProviderIdle
    /\ \E other \in { [is_admin |-> TRUE, admin_level |-> "super", is_suspended |-> FALSE],
                       [is_admin |-> TRUE, admin_level |-> "regular", is_suspended |-> FALSE],
                       [is_admin |-> FALSE, admin_level |-> "<None>", is_suspended |-> FALSE] } :
          users = [u \in UserIds |->
                     IF u = "u1"
                     THEN [is_admin |-> TRUE, admin_level |-> "super", is_suspended |-> FALSE]
                     ELSE other]
    /\ cache = NoEntries
    /\ cache_timestamps = NoEntries
    /\ now = 0
    /\ admin_http = [endpoint |-> "none"]

\* a cached read: get_users or get_dashboard_stats
CachedRead(caller, endpoint, cache_key, result, raises) ==
    /\ IF verify_admin(users, caller) # 200
       THEN /\ admin_http' = AdminAnswer(endpoint, verify_admin(users, caller), FALSE, NoneV)
            /\ UNCHANGED <<cache, cache_timestamps>>
       ELSE LET here == cache_with_ttl(cache, cache_timestamps, now, cache_key, result, raises)
            IN  /\ cache' = here.cache
                /\ cache_timestamps' = here.cache_timestamps
                /\ admin_http' = AdminAnswer(endpoint, IF here.raised THEN 500 ELSE 200,
                                             here.called, here.value)
    /\ UNCHANGED <<users, now, pipelineVars, validateVars, extractVars, clients, http,
                   current_provider, app_settings, configured, provider_result>>

\* GET /api/admin/users
GetUsers(caller, raises) ==
    CachedRead(caller, "get_users", "fetch_users_data_()_{}",
               fetch_users_data(users), raises)

\* GET /api/admin/dashboard-stats
GetDashboardStats(caller, listed, raises) ==
    CachedRead(caller, "get_dashboard_stats", "fetch_dashboard_stats_data_()_{}",
               fetch_dashboard_stats_data(users, listed), raises)

\* POST /api/admin/clear-cache
ClearCache(caller) ==
    /\ IF verify_admin(users, caller) # 200
       THEN /\ admin_http' = AdminAnswer("clear_cache", verify_admin(users, caller), FALSE, NoneV)
            /\ UNCHANGED <<cache, cache_timestamps>>
       ELSE /\ cache' = NoEntries
            /\ cache_timestamps' = NoEntries
            /\ admin_http' = AdminAnswer("clear_cache", 200, FALSE, NoneV)
    /\ UNCHANGED <<users, now, pipelineVars, validateVars, extractVars, clients, http,
                   current_provider, app_settings, configured, provider_result>>

\* the user is updated and the cached reads stay
UpdateUserStatusKeepsCache(caller, user_id, suspended, raises) ==
    /\ IF verify_admin(users, caller) # 200
       THEN /\ admin_http' = AdminAnswer("update_user_status", verify_admin(users, caller),
                                         FALSE, NoneV)
            /\ UNCHANGED <<users, cache, cache_timestamps>>
       ELSE IF raises \/ user_id \notin DOMAIN users
       THEN /\ admin_http' = AdminAnswer("update_user_status", 500, FALSE, NoneV)
            /\ UNCHANGED <<users, cache, cache_timestamps>>
       ELSE /\ users' = [users EXCEPT ![user_id].is_suspended = suspended]
            /\ UNCHANGED <<cache, cache_timestamps>>
            /\ admin_http' = AdminAnswer("update_user_status", 200, FALSE, NoneV)
    /\ UNCHANGED <<now, pipelineVars, validateVars, extractVars, clients, http,
                   current_provider, app_settings, configured, provider_result>>

\* PATCH /api/admin/users/{user_id}/status
UpdateUserStatus(caller, user_id, suspended, raises) ==
    /\ IF verify_admin(users, caller) # 200
       THEN /\ admin_http' = AdminAnswer("update_user_status", verify_admin(users, caller),
                                         FALSE, NoneV)
            /\ UNCHANGED <<users, cache, cache_timestamps>>
       ELSE IF raises \/ user_id \notin DOMAIN users
       THEN /\ admin_http' = AdminAnswer("update_user_status", 500, FALSE, NoneV)
            /\ UNCHANGED <<users, cache, cache_timestamps>>
       ELSE /\ users' = [users EXCEPT ![user_id].is_suspended = suspended]
            /\ cache' = NoEntries
            /\ cache_timestamps' = NoEntries
            /\ admin_http' = AdminAnswer("update_user_status", 200, FALSE, NoneV)
    /\ UNCHANGED <<now, pipelineVars, validateVars, extractVars, clients, http,
                   current_provider, app_settings, configured, provider_result>>

\* DELETE /api/admin/users/{user_id}
DeleteUser(caller, user_id, raises) ==
    /\ IF verify_admin(users, caller) # 200
       THEN /\ admin_http' = AdminAnswer("delete_user", verify_admin(users, caller),
                                         FALSE, NoneV)
            /\ UNCHANGED <<users, cache, cache_timestamps>>
       ELSE IF user_id \notin DOMAIN users
       THEN /\ admin_http' = AdminAnswer("delete_user", 404, FALSE, NoneV)
            /\ UNCHANGED <<users, cache, cache_timestamps>>
       ELSE IF users[user_id].admin_level = "super"
       THEN /\ admin_http' = AdminAnswer("delete_user", 403, FALSE, NoneV)
            /\ UNCHANGED <<users, cache, cache_timestamps>>
       ELSE IF raises
       THEN /\ admin_http' = AdminAnswer("delete_user", 500, FALSE, NoneV)
            /\ UNCHANGED <<users, cache, cache_timestamps>>
       ELSE /\ users' = [u \in DOMAIN users \ {user_id} |-> users[u]]
            /\ cache' = NoEntries
            /\ cache_timestamps' = NoEntries
            /\ admin_http' = AdminAnswer("delete_user", 200, FALSE, NoneV)
    /\ UNCHANGED <<now, pipelineVars, validateVars, extractVars, clients, http,
                   current_provider, app_settings, configured, provider_result>>

\* PATCH /api/admin/users/{user_id}/admin-role
UpdateAdminRole(caller, user_id, role_update, raises) ==
    /\ IF verify_super_admin(users, caller) # 200
       THEN /\ admin_http' = AdminAnswer("update_admin_role",
                                         verify_super_admin(users, caller), FALSE, NoneV)
            /\ UNCHANGED <<users, cache, cache_timestamps>>
       ELSE IF user_id \notin DOMAIN users
       THEN /\ admin_http' = AdminAnswer("update_admin_role", 404, FALSE, NoneV)
            /\ UNCHANGED <<users, cache, cache_timestamps>>
       ELSE IF users[user_id].admin_level = "super" /\ ~role_update.is_admin
       THEN /\ admin_http' = AdminAnswer("update_admin_role", 403, FALSE, NoneV)
            /\ UNCHANGED <<users, cache, cache_timestamps>>
       ELSE IF raises
       THEN /\ admin_http' = AdminAnswer("update_admin_role", 500, FALSE, NoneV)
            /\ UNCHANGED <<users, cache, cache_timestamps>>
       ELSE /\ users' = [users EXCEPT
                            ![user_id].is_admin = role_update.is_admin,
                            ![user_id].admin_level =
                                IF role_update.is_admin THEN role_update.admin_level
                                ELSE "<None>"]
            /\ cache' = NoEntries
            /\ cache_timestamps' = NoEntries
            /\ admin_http' = AdminAnswer("update_admin_role", 200, FALSE, NoneV)
    /\ UNCHANGED <<now, pipelineVars, validateVars, extractVars, clients, http,
                   current_provider, app_settings, configured, provider_result>>

\* a quarter of a minute passes between two calls
Tick ==
    /\ now + 15 <= MaxTime
    /\ now' = now + 15
    /\ UNCHANGED <<users, cache, cache_timestamps, admin_http, pipelineVars, validateVars,
                   extractVars, clients, http, current_provider, app_settings, configured,
                   provider_result>>

NextAdmin ==
    \/ \E caller \in UserIds, raises \in BOOLEAN : GetUsers(caller, raises)
    \/ \E caller \in UserIds, listed \in BOOLEAN, raises \in BOOLEAN :
          GetDashboardStats(caller, listed, raises)
    \/ \E caller \in UserIds : ClearCache(caller)
    \/ \E caller \in UserIds, user_id \in UserIds, suspended \in BOOLEAN, raises \in BOOLEAN :
          UpdateUserStatus(caller, user_id, suspended, raises)
    \/ \E caller \in UserIds, user_id \in UserIds, raises \in BOOLEAN :
          DeleteUser(caller, user_id, raises)
    \/ \E caller \in UserIds, user_id \in UserIds, role_update \in [is_admin : BOOLEAN, admin_level : {"regular", "super"}],
          raises \in BOOLEAN :
          UpdateAdminRole(caller, user_id, role_update, raises)
    \/ Tick

SpecAdmin == InitAdmin /\ [][NextAdmin]_vars

----------------------------------------------------------------------------
(* Properties *)

\* C1: for a non-empty candidate list, the 'diagnosis' of the result of
\* select_best_diagnosis is byte-equal to the 'diagnosis' of a candidate of the
\* list: a candidate whose trimmed, lower-cased label equals the oracle's
\* trimmed, lower-cased pick when the pick was accepted, candidates[0] in the
\* fallback; the oracle's own string is never the label.
C1_MembershipInvariant ==
    (pc = "selected" /\ candidates # <<>>) =>
        /\ selStatus \in {"ACCEPTED", "EXHAUSTED"}
        /\ \E i \in DOMAIN candidates :
              selected_diagnosis.diagnosis = candidates[i].diagnosis
        /\ selStatus = "ACCEPTED" =>
              /\ selResp.kind = "obj"
              /\ selResp.diagnosis.t = "str"
              /\ Lower(Strip(selected_diagnosis.diagnosis.s))
                    = Lower(Strip(selResp.diagnosis.s))
        /\ selStatus = "EXHAUSTED" =>
              selected_diagnosis.diagnosis = candidates[1].diagnosis

\* an accepted pick, after a failed attempt, whose text differs from the label returned
C1_Witness ==
    /\ pc = "selected"
    /\ selStatus = "ACCEPTED"
    /\ selCalls >= 2
    /\ selected_diagnosis.diagnosis # selResp.diagnosis

\* C2: with an empty candidate list select_best_diagnosis returns the "no
\* diagnosis" sentinel (diagnosis None, every list field empty, the fixed
\* reasoning) and the selection oracle is never called.
C2_EmptyShortCircuit ==
    (searchResult = "ok" /\ candidates = <<>>) =>
        /\ selStatus = "SENTINEL"
        /\ selCalls = 0
        /\ selected_diagnosis =
              [diagnosis |-> NoneV, definition |-> NoneV,
               defining_characteristics |-> <<>>, related_factors |-> <<>>,
               risk_factors |-> <<>>, suggested_outcomes |-> <<>>,
               suggested_interventions |-> <<>>,
               reasoning |-> Str(<<"No", "suitable", "diagnoses", "found", "for",
                                   "the", "provided", "assessment", "data.">>)]

\* the search returned no row and the selection has returned
C2_Witness ==
    /\ pc = "selected"
    /\ searchResult = "ok"
    /\ candidates = <<>>
    /\ selStatus = "SENTINEL"

\* C3: select_best_diagnosis calls the oracle at most 3 times and has
\* returned after the third call, whatever the oracle answers or raises.
C3_SelectionBounded ==
    /\ selCalls <= 3
    /\ pc = "select" => (selCalls = attempt /\ attempt < 3)
    /\ selCalls = 3 =>
          /\ pc \in {"selected", "generate", "done"}
          /\ selStatus \in {"ACCEPTED", "EXHAUSTED"}

\* three calls were made, the oracle raised on the last one, the function returned
C3_Witness ==
    /\ pc = "selected"
    /\ selCalls = 3
    /\ selResp.kind = "raise"

\* C4: when all 3 attempts are invalid select_best_diagnosis returns
\* normally a copy of candidates[0] whose reasoning is the fixed text
\* containing 'fallback'; every other field is the first candidate's.
C4_FallbackOnExhaustion ==
    LET named == /\ selResp.kind = "obj"
                 /\ selResp.diagnosis.t = "str"
                 /\ \E i \in DOMAIN candidates :
                       Lower(Strip(candidates[i].diagnosis.s))
                          = Lower(Strip(selResp.diagnosis.s))
    IN  /\ (pc = "selected" /\ selCalls = 3 /\ ~named) =>
              (selStatus = "EXHAUSTED" /\ outcome = NoOutcome)
        /\ selStatus = "EXHAUSTED" =>
              /\ selCalls = 3
              /\ DOMAIN selected_diagnosis = DOMAIN candidates[1] \cup {"reasoning"}
              /\ \A f \in DOMAIN candidates[1] : selected_diagnosis[f] = candidates[1][f]
              /\ selected_diagnosis.reasoning.t = "str"
              /\ ContainsWord(selected_diagnosis.reasoning.s, "fallback")
              /\ selected_diagnosis.reasoning.s =
                    <<"AI", "selection", "failed", "after", "multiple", "attempts.",
                      "Returned", "first", "candidate", "as", "fallback", "based",
                      "on", "highest", "similarity", "score.">>

\* the fallback was returned for a list of two different candidates
C4_Witness ==
    /\ pc = "selected"
    /\ selStatus = "EXHAUSTED"
    /\ Len(candidates) = 2
    /\ candidates[1].diagnosis # candidates[2].diagnosis

\* C5: the selection loop ends at the first response that names a
\* candidate: on attempt k the oracle has been called exactly k times, the
\* result is a matching candidate's record with the reasoning of that response
\* ('No reasoning provided' when it has none), and no call follows acceptance.
C5_AcceptFirstValid ==
    [][ /\ ( /\ pc = "select"
             /\ selCalls' = selCalls + 1
             /\ selResp'.kind = "obj"
             /\ selResp'.diagnosis.t = "str"
             /\ \E i \in DOMAIN candidates :
                   Lower(Strip(candidates[i].diagnosis.s))
                      = Lower(Strip(selResp'.diagnosis.s)) )
           => /\ pc' = "selected"
              /\ selStatus' = "ACCEPTED"
              /\ selCalls' = attempt + 1
              /\ \E i \in DOMAIN candidates :
                    /\ Lower(Strip(candidates[i].diagnosis.s))
                          = Lower(Strip(selResp'.diagnosis.s))
                    /\ selected_diagnosis' =
                          [reasoning |->
                              IF selResp'.reasoning = Missing
                              THEN Str(<<"No", "reasoning", "provided">>)
                              ELSE selResp'.reasoning] @@ candidates[i]
        /\ selStatus = "ACCEPTED" => selCalls' = selCalls
      ]_vars

\* accepted on the second attempt, the response carrying a reasoning
C5_Witness ==
    /\ pc = "selected"
    /\ selStatus = "ACCEPTED"
    /\ selCalls = 2
    /\ selResp.reasoning = Str(<<"because">>)
    /\ selected_diagnosis.reasoning = selResp.reasoning

\* C6 (as stated): whenever a selection attempt failed, for any reason, and
\* another attempt is made, the prompt of that attempt contains a correction
\* block that lists the exact candidate labels and states the value chosen
\* before.
C6_CorrectionAfterAnyFailure ==
    [][ (pc = "select" /\ selCalls >= 1 /\ selCalls' = selCalls + 1) =>
          \E b \in DOMAIN sel_sent'.corrections :
              /\ sel_sent'.corrections[b].names =
                    [i \in DOMAIN candidates |-> candidates[i].diagnosis.s]
              /\ (selResp.kind = "obj" /\ selResp.diagnosis.t = "str") =>
                    sel_sent'.corrections[b].selected = selResp.diagnosis
      ]_vars

\* C6 (amended): when the attempt failed because the parsed object's
\* 'diagnosis' (a string, or absent) names no candidate, the prompt of the next
\* attempt contains a correction block stating that value ('None' when absent)
\* and the exact candidate labels; after any other failure the next prompt is
\* the previous prompt, unchanged.
C6_CorrectionAfterInvalidPick ==
    [][ (pc = "select" /\ selCalls >= 1 /\ selCalls' = selCalls + 1) =>
          IF /\ selResp.kind = "obj"
             /\ selResp.diagnosis.t \in {"str", "missing"}
          THEN \E b \in DOMAIN sel_sent'.corrections :
                  /\ sel_sent'.corrections[b].names =
                        [i \in DOMAIN candidates |-> candidates[i].diagnosis.s]
                  /\ sel_sent'.corrections[b].selected =
                        IF selResp.diagnosis.t = "missing"
                        THEN Str(<<"N", "o", "n", "e">>)
                        ELSE selResp.diagnosis
          ELSE sel_sent' = sel_sent
      ]_vars

\* the third attempt was made with two correction blocks in its prompt
C6_Witness ==
    /\ selCalls = 3
    /\ sel_sent # NoneV
    /\ Len(sel_sent.corrections) = 2
    /\ sel_sent.corrections[1].selected # sel_sent.corrections[2].selected

\* C7: generate_structured_ncp calls the oracle at most 3 times and has
\* returned a plan or raised after the third call, whatever the oracle answers
\* or raises.
C7_GenerationBounded ==
    /\ genCalls <= 3
    /\ pc = "generate" => (genCalls = genAttempt /\ genAttempt < 3)
    /\ genCalls = 3 => (pc = "done" /\ outcome.status \in {200, 500})

\* three generation calls were made and the oracle raised on the last one
C7_Witness ==
    /\ pc = "done"
    /\ genCalls = 3
    /\ genResp.kind = "raise"
    /\ outcome.status = 500

\* C8: generate_structured_ncp returns a plan only if that plan passed
\* validate_ncp_structure on the attempt that produced it; when every attempt
\* fails it raises and no plan, degraded or not, reaches the caller.
C8_OnlyValidatedPlans ==
    /\ ncp_data # NoneV =>
          /\ genResp.kind = "obj"
          /\ genResp.plan = ncp_data
          /\ ~ValidateRaises(ncp_data)
          /\ validate_ncp_structure(ncp_data)
    /\ outcome.status = 200 => (ncp_data # NoneV /\ outcome.body.ncp = ncp_data)
    /\ outcome.status # 200 => (ncp_data = NoneV /\ "body" \notin DOMAIN outcome)
    /\ (genCalls = 3 /\ ncp_data = NoneV) => outcome.status = 500

\* the last attempt returned a plan that failed validation: the call raised
C8_Witness ==
    /\ pc = "done"
    /\ genCalls = 3
    /\ genResp.kind = "obj"
    /\ outcome.status = 500

\* C9: an exception raised by the oracle call consumes exactly one attempt
\* and, before the last attempt, never escapes: the next attempt is made.  In
\* the generation loop it escalates on the last attempt only; in the selection
\* loop it never escalates, the last attempt ending in the fallback.
C9_OracleErrorAbsorbed ==
    [][ /\ (pc = "select" /\ selCalls' = selCalls + 1 /\ selResp'.kind = "raise") =>
              /\ attempt' = attempt + 1
              /\ outcome' = NoOutcome
              /\ attempt < 2 => (pc' = "select" /\ selStatus' = "none")
              /\ attempt = 2 => (pc' = "selected" /\ selStatus' = "EXHAUSTED")
        /\ (pc = "generate" /\ genCalls' = genCalls + 1 /\ genResp'.kind = "raise") =>
              /\ genAttempt' = genAttempt + 1
              /\ genAttempt < 2 => (pc' = "generate" /\ outcome' = NoOutcome)
              /\ genAttempt = 2 => (pc' = "done" /\ outcome'.status = 500)
      ]_vars

\* the oracle raised on the second generation attempt and a third is due
C9_Witness ==
    /\ pc = "generate"
    /\ genAttempt = 2
    /\ genResp.kind = "raise"
    /\ outcome = NoOutcome

\* C10: an error of the embedding call or of the similarity search is
\* propagated without a retry (no external retrieval call is made twice), the
\* selection and generation oracles are never called and the request ends as
\* an error.
C10_RetrievalErrorFatal ==
    /\ embedCalls <= 1
    /\ searchCalls <= 1
    /\ embedResult = "raise" => (embedCalls = 1 /\ searchCalls = 0)
    /\ searchResult = "raise" => (embedCalls = 1 /\ searchCalls = 1)
    /\ (embedResult = "raise" \/ searchResult = "raise") =>
          /\ pc = "done"
          /\ outcome.status = 500
          /\ selCalls = 0
          /\ genCalls = 0
          /\ selStatus = "none"

\* the similarity search raised after a successful embedding
C10_Witness ==
    /\ pc = "done"
    /\ embedResult = "ok"
    /\ searchResult = "raise"
    /\ outcome.status = 500

\* C11: within one suggest_diagnoses request the stages run strictly in the
\* order retrieval, selection attempts, generation attempts, one call at a
\* time; a result is returned only by a generation attempt that produced a
\* validated plan, and it carries the selection together with that plan: no
\* selection without a plan and no partial result is ever returned.
C11_StagesInOrder ==
    [][ /\ embedCalls' # embedCalls =>
              /\ pc = "embed"
              /\ embedCalls' = embedCalls + 1
              /\ searchCalls = 0 /\ selCalls = 0 /\ genCalls = 0
              /\ UNCHANGED <<searchCalls, selCalls, genCalls>>
        /\ searchCalls' # searchCalls =>
              /\ pc = "search"
              /\ embedResult = "ok"
              /\ searchCalls' = searchCalls + 1
              /\ selCalls = 0 /\ genCalls = 0
              /\ UNCHANGED <<embedCalls, selCalls, genCalls>>
        /\ selCalls' # selCalls =>
              /\ pc = "select"
              /\ searchResult = "ok"
              /\ selCalls' = selCalls + 1
              /\ selCalls = attempt
              /\ genCalls = 0
              /\ UNCHANGED <<embedCalls, searchCalls, genCalls>>
        /\ genCalls' # genCalls =>
              /\ pc = "generate"
              /\ selStatus # "none"
              /\ genCalls' = genCalls + 1
              /\ genCalls = genAttempt
              /\ UNCHANGED <<embedCalls, searchCalls, selCalls, selected_diagnosis>>
        /\ (outcome' # outcome /\ outcome'.status = 200) =>
              /\ genCalls' = genCalls + 1
              /\ GenVerdict(genResp') = "valid"
              /\ outcome'.body = [ncp |-> genResp'.plan] @@ selected_diagnosis
        /\ (outcome' # outcome /\ outcome'.status # 200) =>
              "body" \notin DOMAIN outcome'
      ]_vars

\* selection and generation both needed a second attempt before the plan
\* was returned with the selected diagnosis
C11_Witness ==
    /\ pc = "done"
    /\ outcome.status = 200
    /\ selCalls = 2
    /\ genCalls = 2
    /\ outcome.body.diagnosis = selected_diagnosis.diagnosis
    /\ outcome.body.ncp = ncp_data

\* C17: during select_best_diagnosis every oracle attempt produces one usage
\* report, so in the record of the active request the number of tracked
\* selection calls equals the number of selection attempts made.
C17_SelectionCallsTracked ==
    current_request # NoneV =>
        LET calls == current_request.api_calls
            tracked == { i \in DOMAIN calls :
                           calls[i].step \notin {"parse_assessment", "generate_ncp"} }
        IN  Cardinality(tracked) = selCalls

\* C18: during generate_structured_ncp every attempt, the attempts whose
\* oracle call fails included, produces exactly one track_api_call with step
\* generate_ncp and that attempt's number, so the record of a tracked request
\* lists as many generation calls as generation attempts were made.
C18_EveryGenerationAttemptTracked ==
    parse_outcome.status = 200 =>
        LET rec == IF current_request # NoneV THEN current_request ELSE files[Len(files)]
            tracked == SelectSeq(rec.api_calls, LAMBDA c : c.step = "generate_ncp")
        IN  /\ Len(tracked) = genCalls
            /\ \A k \in DOMAIN tracked : tracked[k].context.attempt = k

\* C18 as amended: an attempt whose oracle call returns a response produces
\* exactly one track_api_call with step generate_ncp and that attempt's
\* number, whether or not the response parses and validates; an attempt whose
\* oracle call raises produces none; without an active request nothing is
\* recorded.
C18_ReturnedGenerationCallsTracked ==
    [][ genCalls' = genCalls + 1 =>
          IF current_request = NoneV
          THEN current_request' = NoneV /\ files' = files
          ELSE LET rec == IF current_request' # NoneV THEN current_request'
                          ELSE files'[Len(files')]
                   before == SelectSeq(current_request.api_calls,
                                       LAMBDA c : c.step = "generate_ncp")
                   after == SelectSeq(rec.api_calls, LAMBDA c : c.step = "generate_ncp")
               IN  /\ rec.request_id = current_request.request_id
                   /\ IF genResp'.kind = "raise"
                      THEN after = before
                      ELSE /\ Len(after) = Len(before) + 1
                           /\ SubSeq(after, 1, Len(before)) = before
                           /\ after[Len(after)].context.attempt = genCalls'
                           /\ after[Len(after)].usage = extract_usage_metadata(genResp')
      ]_vars

\* a tracked request whose second generation call raised: the saved record
\* lists the first and the third attempt only
C18_Witness ==
    /\ pc = "done"
    /\ parse_outcome.status = 200
    /\ genCalls = 3
    /\ LET tracked == SelectSeq(files[Len(files)].api_calls,
                                LAMBDA c : c.step = "generate_ncp")
       IN  /\ Len(tracked) = 2
           /\ tracked[1].context.attempt = 1
           /\ tracked[2].context.attempt = 3

\* C19: across all attempts of one generate_structured_ncp call the prompt
\* sent to the oracle is the same, the one built from the assessment and the
\* selected diagnosis at entry; a failed attempt leaves the prompt, the
\* assessment and the selected diagnosis as they were.
C19_SamePromptEveryAttempt ==
    [][ (pc = "generate" /\ genCalls' = genCalls + 1) =>
          /\ gen_sent' = NcpPrompt(original_assessment, selected_diagnosis)
          /\ genCalls > 0 => gen_sent' = gen_sent
          /\ UNCHANGED <<ncp_prompt, original_assessment, selected_diagnosis>>
      ]_vars

\* two attempts failed, the second on a plan that did not validate, and the
\* third is due with the prompt built at entry
C19_Witness ==
    /\ pc = "generate"
    /\ genAttempt = 2
    /\ genResp.kind = "obj"
    /\ GenVerdict(genResp) = "invalid"
    /\ gen_sent = ncp_prompt
    /\ ncp_prompt = NcpPrompt(original_assessment, selected_diagnosis)

\* C13: validate_ncp_structure returns False for every plan that lacks any
\* one of the seven sections, for every plan whose outcomes has neither a
\* non-empty short_term nor a non-empty long_term, and for every plan whose
\* interventions has no non-empty independent, dependent or collaborative
\* list.
C13_IncompletePlanReturnsFalse ==
    v_result # "none" =>
        LET NonEmpty(x, key) == x.t = "dict" /\ Truthy(DictGet(x, key))
            NonEmptyList(x, key) == NonEmpty(x, key) /\ DictGet(x, key).t = "list"
            lacking == ~(required_sections \subseteq DOMAIN v_plan.d)
            no_outcome ==
                /\ ~lacking
                /\ ~NonEmpty(v_plan.d["outcomes"], "short_term")
                /\ ~NonEmpty(v_plan.d["outcomes"], "long_term")
            no_intervention ==
                /\ ~lacking
                /\ ~NonEmptyList(v_plan.d["interventions"], "independent")
                /\ ~NonEmptyList(v_plan.d["interventions"], "dependent")
                /\ ~NonEmptyList(v_plan.d["interventions"], "collaborative")
        IN  (lacking \/ no_outcome \/ no_intervention) => v_result = "False"

\* C13 as amended: False for every plan that lacks a section and for every
\* plan whose outcomes.short_term and long_term are both absent or empty; a
\* plan whose three intervention categories are all absent or empty is never
\* accepted: the result is False, or a TypeError raised by len() of a number
\* found under outcomes.  Empty means falsy, whatever the type.
C13_IncompletePlanNeverAccepted ==
    v_result # "none" =>
        LET NonEmpty(x, key) == x.t = "dict" /\ Truthy(DictGet(x, key))
            IsNumber(x, key) == x.t = "dict" /\ DictGet(x, key).t = "num"
            lacking == ~(required_sections \subseteq DOMAIN v_plan.d)
            outcomes == v_plan.d["outcomes"]
            interventions == v_plan.d["interventions"]
            no_outcome ==
                /\ ~lacking
                /\ ~NonEmpty(outcomes, "short_term")
                /\ ~NonEmpty(outcomes, "long_term")
            no_intervention ==
                /\ ~lacking
                /\ ~NonEmpty(interventions, "independent")
                /\ ~NonEmpty(interventions, "dependent")
                /\ ~NonEmpty(interventions, "collaborative")
        IN  /\ (lacking \/ no_outcome) => v_result = "False"
            /\ no_intervention => v_result \in {"False", "TypeError"}
            /\ (no_intervention /\ v_result = "TypeError") =>
                  IsNumber(outcomes, "short_term") \/ IsNumber(outcomes, "long_term")

\* a plan with every section filled and an outcome, whose intervention
\* categories are all empty lists beside a note, was rejected
C13_Witness ==
    /\ v_result = "False"
    /\ SectionsOk(v_plan)
    /\ Truthy(DictGet(v_plan.d["outcomes"], "short_term"))
    /\ v_plan.d["rationale"].t = "dict"
    /\ Truthy(DictGet(v_plan.d["rationale"], "interventions"))
    /\ DictGet(v_plan.d["interventions"], "independent") = L(<<>>)
    /\ DictGet(v_plan.d["interventions"], "dependent") = L(<<>>)
    /\ ~Truthy(DictGet(v_plan.d["interventions"], "collaborative"))

\* C14: validate_ncp_structure rejects every plan in which some intervention
\* id declared under interventions has no entry under rationale.interventions,
\* even when rationale.interventions is non-empty.
C14_UnmatchedInterventionRejected ==
    v_result # "none" =>
        LET interventions == v_plan.d["interventions"]
            rationale == v_plan.d["rationale"]
            Lists == IF interventions.t # "dict" THEN {}
                     ELSE { DictGet(interventions, c) :
                              c \in {"independent", "dependent", "collaborative"} }
            declared == UNION { { x.v[i].d["id"].s : i \in DOMAIN x.v } :
                                  x \in { y \in Lists : y.t = "list" } }
            explained == IF rationale.t = "dict"
                            /\ DictGet(rationale, "interventions").t = "dict"
                         THEN { <<k>> : k \in DOMAIN rationale.d["interventions"].d }
                         ELSE {}
        IN  (required_sections \subseteq DOMAIN v_plan.d /\ ~(declared \subseteq explained))
                => v_result # "True"

\* C15: validate_ncp_structure accepts a plan only if outcomes.short_term or
\* outcomes.long_term contains at least one timeframe entry; a plan whose
\* short_term and long_term both have an empty timeframes map is rejected.
C15_TimeframeEntryRequired ==
    v_result = "True" =>
        LET outcomes == v_plan.d["outcomes"]
            HasTimeframe(term) ==
                /\ DictGet(outcomes, term).t = "dict"
                /\ DictGet(DictGet(outcomes, term), "timeframes").t = "dict"
                /\ Truthy(DictGet(DictGet(outcomes, term), "timeframes"))
        IN  HasTimeframe("short_term") \/ HasTimeframe("long_term")

\* C16: the JSON extraction is insensitive to Markdown fencing: for every
\* JSON object text, the extraction from the text wrapped in code fences
\* yields the same parsed object as the extraction from the text unwrapped.
C16_FenceInsensitive ==
    (x_plain # NoneV /\ x_fenced # NoneV) => x_fenced = x_plain

\* C12: concurrent requests are independent: in every interleaving of two
\* requests, each a parse_manual_assessment call followed by a
\* suggest_diagnoses call, each request's outcome and the tracker record saved
\* for it are the same as when it runs alone; no record holds the calls or
\* errors of the other request and no started record is lost or overwritten.
C12_RequestsIndependent ==
    /\ \A c \in Clients :
          clients[c].phase = "done" =>
              /\ clients[c].outcome = clients[c].alone.outcome
              /\ \A i \in DOMAIN clients[c].alone.files :
                    \E k \in DOMAIN files : files[k] = clients[c].alone.files[i]
    /\ \A k \in DOMAIN files :
          \E c \in Clients : \E i \in DOMAIN clients[c].alone.files :
              files[k] = clients[c].alone.files[i]

\* C20: every error that generate_ncp, generate_explanation,
\* parse_manual_assessment or suggest_diagnoses surfaces to the caller is an
\* HTTP error whose detail carries a message and a remediation suggestion.
C20_ErrorsCarrySuggestion ==
    \A i \in DOMAIN http :
        http[i].outcome.status # 200 =>
            /\ "detail" \in DOMAIN http[i].outcome
            /\ {"message", "suggestion"} \subseteq DOMAIN http[i].outcome.detail

C28_TokenTotalsAreSums ==
    current_request # NoneV =>
        LET calls == current_request.api_calls
            steps == current_request.steps_completed
            tokens == current_request.total_tokens
            In(i) == IF Truthy(calls[i].usage) THEN calls[i].usage.d.input_tokens ELSE 0
            Out(i) == IF Truthy(calls[i].usage) THEN calls[i].usage.d.output_tokens ELSE 0
            SumTo[n \in 0..Len(calls)] ==
                IF n = 0 THEN <<0, 0>>
                ELSE <<SumTo[n - 1][1] + In(n), SumTo[n - 1][2] + Out(n)>>
        IN  /\ tokens.total_billable = tokens.input_tokens + tokens.output_tokens
            /\ tokens.input_tokens = SumTo[Len(calls)][1]
            /\ tokens.output_tokens = SumTo[Len(calls)][2]
            /\ \A i, j \in DOMAIN steps : i # j => steps[i] # steps[j]
            /\ { steps[i] : i \in DOMAIN steps } = { calls[i].step : i \in DOMAIN calls }

\* an active request with the parsing call and two generation calls recorded
C28_Witness ==
    /\ current_request # NoneV
    /\ Len(current_request.api_calls) = 3
    /\ current_request.steps_completed = <<"parse_assessment", "generate_ncp">>
    /\ current_request.total_tokens.total_billable = 9

\* C29: without an active request track_api_call, track_error and
\* complete_ncp_request change nothing and write no file; a request record
\* reaches the storage only through complete_ncp_request, once per started
\* request, and after that write no request is active.
C29_TrackerIdleWithoutRequest ==
    [][ LET started == /\ Len(http') > Len(http)
                       /\ http'[Len(http')].endpoint = "parse_manual_assessment"
        IN  /\ (current_request = NoneV /\ ~started) =>
                  (current_request' = NoneV /\ files' = files)
            /\ files' # files =>
                  /\ Len(files') = Len(files) + 1
                  /\ SubSeq(files', 1, Len(files)) = files
                  /\ current_request' = NoneV
                  /\ LET rec == files'[Len(files')]
                     IN  /\ rec.status \in {"completed", "failed"}
                         /\ rec.result_summary # NoneV
                         /\ rec.request_id =
                               IF started THEN next_id ELSE current_request.request_id
                         /\ \A i \in DOMAIN files : files[i].request_id # rec.request_id
      ]_vars

\* a failed parsing saved its request; the suggest_diagnoses call that
\* followed found no active request, failed, and wrote nothing
C29_Witness ==
    /\ Len(http) = 2
    /\ http[1].endpoint = "parse_manual_assessment"
    /\ http[1].outcome.status = 500
    /\ http[2].endpoint = "suggest_diagnoses"
    /\ http[2].outcome.status = 500
    /\ Len(files) = 1
    /\ current_request = NoneV

\* C26: generate_ncp returns the parsed sections only when the text of the
\* oracle supplied content for every one of the seven sections; a text that
\* lacks a section is answered with the parsing_error HTTP 500 and is never
\* returned.
C26_MissingSectionRejected ==
    [][ \A request \in NcpRequests, resp \in NcpResponses :
          LET Supplied(section) ==
                  \E i \in 1..(Len(resp.text) - 1) :
                     /\ section_pattern(resp.text[i]) # NoSection
                     /\ SectionOfName(section_pattern(resp.text[i])) = section
                     /\ resp.text[i + 1] = "text"
              answered == http'[Len(http')].outcome
          IN  (/\ resp.kind = "text"
               /\ request = [assessment |-> "sufficient", format |-> "ok"]
               /\ CallGenerateNcp(request, resp))
              => /\ answered.status = 200 => \A section \in ncp_sections : Supplied(section)
                 /\ (\E section \in ncp_sections : ~Supplied(section)) =>
                        /\ answered.status = 500
                        /\ answered.detail.error_type = "parsing_error"
      ]_vars

C30_InvalidProviderRejected ==
    [][ /\ \A provider \in {"claude", "gemini", "openai"}, db_error \in {"none", "select", "upsert"} :
              (/\ SetProvider(provider, db_error)
               /\ \/ provider \notin {"claude", "gemini"}
                  \/ provider = "claude" /\ ~configured.claude_client
                  \/ provider = "gemini" /\ ~configured.gemini_available)
              => /\ provider_result'.raised
                 /\ provider_result'.log = "-"
                 /\ current_provider' = current_provider
                 /\ app_settings' = app_settings
        /\ current_provider \in {"claude", "gemini"}
        /\ current_provider' \in {"claude", "gemini"}
      ]_vars

\* gemini was asked for on a server without its key: refused, nothing changed
C30_Witness ==
    /\ provider_result.op = "set_provider"
    /\ provider_result.provider = "gemini"
    /\ provider_result.raised
    /\ ~configured.gemini_available
    /\ configured.supabase
    /\ current_provider = "claude"
    /\ app_settings = "claude"

\* C21: a user whose admin_level is 'super' still exists and is still a
\* super admin after any delete_user or update_admin_role call: delete_user
\* on a super admin fails with 403 and no update_admin_role call lowers the
\* level of a super admin or removes the admin flag.
C21_SuperAdminsStay ==
    [][ \A u \in DOMAIN users :
          users[u].admin_level = "super" =>
             /\ u \in DOMAIN users'
             /\ users'[u].admin_level = "super"
             /\ users'[u].is_admin
      ]_vars

\* C22: when update_user_status, delete_user, update_admin_role or
\* clear_cache has completed successfully both stores are empty, the next
\* get_users or get_dashboard_stats call invokes the underlying fetch, and
\* no cached or returned value was computed from the users as they were
\* before a mutation, whatever the order of reads and mutations.
C22_MutationsEmptyTheCache ==
    [][ LET Fresh(cache_key) ==
                IF cache_key = "fetch_users_data_()_{}"
                THEN { fetch_users_data(users') }
                ELSE { fetch_dashboard_stats_data(users', listed) : listed \in BOOLEAN }
            KeyOf(endpoint) ==
                IF endpoint = "get_users" THEN "fetch_users_data_()_{}"
                ELSE "fetch_dashboard_stats_data_()_{}"
            answered == admin_http'
        IN  /\ (answered.endpoint \in {"update_user_status", "delete_user", "update_admin_role", "clear_cache"} /\ answered.status = 200) =>
                  (cache' = NoEntries /\ cache_timestamps' = NoEntries)
            /\ (/\ answered.endpoint \in {"get_users", "get_dashboard_stats"}
                /\ answered.status \in {200, 500}
                /\ answered.after_mutation) => answered.called
            /\ \A cache_key \in DOMAIN cache' : cache'[cache_key] \in Fresh(cache_key)
            /\ (/\ answered.endpoint \in {"get_users", "get_dashboard_stats"}
                /\ answered.status = 200) => answered.body \in Fresh(KeyOf(answered.endpoint))
      ]_vars

\* a user was deleted and the read that followed fetched the one user left
C22_Witness ==
    /\ admin_http.endpoint = "get_users"
    /\ admin_http.status = 200
    /\ admin_http.after_mutation
    /\ admin_http.called
    /\ DOMAIN users = {"u1"}
    /\ admin_http.body = users
    /\ cache["fetch_users_data_()_{}"] = users

\* C23: a wrapped call returns the stored value without calling the wrapped
\* function exactly when an entry for the key exists and its age is
\* strictly less than ttl_seconds; otherwise it calls the wrapped function
\* and stores result and timestamp together only when the call returns (an
\* exception stores nothing); the two stores always have the same keys.
C23_CacheHitIffYoungEntry ==
    [][ LET Wrapped(cache_key, result, raises) ==
                LET hit == /\ cache_key \in DOMAIN cache
                           /\ now - cache_timestamps[cache_key] < ttl_seconds
                IN  /\ ~admin_http'.called <=> hit
                    /\ hit => /\ admin_http'.status = 200
                              /\ admin_http'.body = cache[cache_key]
                              /\ UNCHANGED <<cache, cache_timestamps>>
                    /\ (~hit /\ raises) => /\ admin_http'.status = 500
                                           /\ UNCHANGED <<cache, cache_timestamps>>
                    /\ (~hit /\ ~raises) =>
                          /\ admin_http'.status = 200
                          /\ admin_http'.body = result
                          /\ cache' = (cache_key :> result) @@ cache
                          /\ cache_timestamps' = (cache_key :> now) @@ cache_timestamps
        IN  /\ \A caller \in UserIds, raises \in BOOLEAN :
                  (verify_admin(users, caller) = 200 /\ GetUsers(caller, raises)) =>
                     Wrapped("fetch_users_data_()_{}", fetch_users_data(users), raises)
            /\ \A caller \in UserIds, listed \in BOOLEAN, raises \in BOOLEAN :
                  (/\ verify_admin(users, caller) = 200
                   /\ GetDashboardStats(caller, listed, raises)) =>
                     Wrapped("fetch_dashboard_stats_data_()_{}",
                             fetch_dashboard_stats_data(users, listed), raises)
            /\ DOMAIN cache = DOMAIN cache_timestamps
            /\ DOMAIN cache' = DOMAIN cache_timestamps'
      ]_vars

\* an entry as old as the ttl was not served: the fetch was called, raised,
\* and the old entry and its timestamp stayed
C23_Witness ==
    /\ admin_http.endpoint = "get_dashboard_stats"
    /\ admin_http.status = 500
    /\ admin_http.called
    /\ "fetch_dashboard_stats_data_()_{}" \in DOMAIN cache
    /\ now - cache_timestamps["fetch_dashboard_stats_data_()_{}"] = ttl_seconds

====
